---- MODULE Spec2Model ----
(***************************************************************************)
(* Model of payatom_bot: the worker registry and its command handlers      *)
(* (handlers/sessions.py), the worker threads (worker_base.py and the six  *)
(* adapters under workers/), and the retry wrapper.                        *)
(*                                                                         *)
(* Specifications over one set of variables:                               *)
(*   Spec        - the command surface (run / stop / stopall) driving      *)
(*                 several worker threads; a thread is followed at the     *)
(*                 granularity of run(): its try body, its finally         *)
(*                 clause, its end.                                        *)
(*   SpecWorker  - one started worker of any of the six adapters,          *)
(*                 followed statement by statement through run(), with     *)
(*                 /stop arriving at any point.  FairWorker adds the       *)
(*                 scheduler's fairness for the worker thread.             *)
(*   SpecFetch   - one logged-in worker followed through its statement     *)
(*                 step: download, wait for the file, upload.              *)
(*   SpecLogin   - one worker followed through _login and its CAPTCHA.     *)
(*   SpecMonitor - the balance monitor checking two workers on its clock.  *)
(*   SpecAlerts  - SpecMonitor with /reset_alerts all and with alert sends *)
(*                 that can fail.                                          *)
(*   SpecMessenger - the Messenger: events and photos handed to it, its    *)
(*                 60 s flush timer, its sends and their retries.          *)
(*   SpecStore   - the credentials CSV under /add and /edit, with one      *)
(*                 live worker holding a credential snapshot.              *)
(*   SpecSettings - load_settings reading BALANCE_CHECK_INTERVAL.          *)
(*   SpecWindow  - the date window of a statement request, by adapter and  *)
(*                 time of day.                                            *)
(*   SpecInFlight - the monitor's check followed across its await of       *)
(*                 _send_alert, with /reset_alerts arriving meanwhile.     *)
(*   SpecTabs    - the tabs of one IOB worker's browser through _cycle_tabs*)
(*                 and the upload tab, with /status at any point.          *)
(*   SpecCodes   - chat texts read as OTP, CAPTCHA answer or edit value,   *)
(*                 and the Canara and IDFC waits for a code.               *)
(***************************************************************************)
EXTENDS Integers, Sequences, FiniteSets, TLC

VARIABLES
    creds_by_alias,   \* bot_data["creds_by_alias"]: alias -> credential dict
    registry,         \* bot_data["workers"]: insertion-ordered dict alias -> worker
    workers,          \* every worker object ever constructed, by identity
    nworkers,         \* number of worker objects constructed so far
    handler,          \* the command handler in progress on the chat I/O loop
    last,             \* (history) the reply of the last completed command
    failMode,         \* (environment) which portal operations can succeed
    monitor,          \* the BalanceMonitor and its clock
    msgr,             \* the Messenger and the sends it has in flight
    csv               \* the rows of the credentials CSV file (SpecStore only)

vars == <<creds_by_alias, registry, workers, nworkers, handler, last, failMode, monitor,
          msgr, csv>>

\* ---------------------------------------------------------------- bounds
MaxWorkers == 3

\* ------------------------------------------------------- string helpers
\* Strings that the code inspects character by character are sequences of
\* one-character strings.
LowerChars == <<"a","b","c","d","e","f","g","h","i","j","k","l","m",
                "n","o","p","q","r","s","t","u","v","w","x","y","z">>
UpperChars == <<"A","B","C","D","E","F","G","H","I","J","K","L","M",
                "N","O","P","Q","R","S","T","U","V","W","X","Y","Z">>

CharUpper(c) ==
    IF \E i \in 1..Len(LowerChars) : LowerChars[i] = c
    THEN UpperChars[CHOOSE i \in 1..Len(LowerChars) : LowerChars[i] = c]
    ELSE c

CharLower(c) ==
    IF \E i \in 1..Len(UpperChars) : UpperChars[i] = c
    THEN LowerChars[CHOOSE i \in 1..Len(UpperChars) : UpperChars[i] = c]
    ELSE c

StrUpper(s) == [i \in 1..Len(s) |-> CharUpper(s[i])]
StrLower(s) == [i \in 1..Len(s) |-> CharLower(s[i])]

RECURSIVE LStrip(_)
LStrip(s) == IF s # <<>> /\ Head(s) = " " THEN LStrip(Tail(s)) ELSE s

RECURSIVE RStrip(_)
RStrip(s) ==
    IF s # <<>> /\ s[Len(s)] = " " THEN RStrip(SubSeq(s, 1, Len(s) - 1)) ELSE s

StrStrip(s) == RStrip(LStrip(s))

EndsWith(s, suf) ==
    /\ Len(suf) <= Len(s)
    /\ SubSeq(s, Len(s) - Len(suf) + 1, Len(s)) = suf

\* str.replace("&", "AND")
RECURSIVE ReplaceAmp(_)
ReplaceAmp(s) ==
    IF s = <<>> THEN <<>>
    ELSE (IF Head(s) = "&" THEN <<"A","N","D">> ELSE <<Head(s)>>)
         \o ReplaceAmp(Tail(s))

\* " ".join(s.split()): runs of blanks become one blank, none at the ends
RECURSIVE CollapseBlanks(_)
CollapseBlanks(s) ==
    LET t == LStrip(s) IN
    IF t = <<>> THEN <<>>
    ELSE IF Len(t) > 1 /\ t[2] = " "
         THEN IF LStrip(Tail(t)) = <<>>
              THEN <<Head(t)>>
              ELSE <<Head(t), " ">> \o CollapseBlanks(Tail(t))
         ELSE <<Head(t)>> \o CollapseBlanks(Tail(t))

\* a.rsplit("_", 1)[-1]
RECURSIVE LastToken(_)
LastToken(s) ==
    IF \E i \in 1..Len(s) : s[i] = "_"
    THEN LastToken(Tail(s))
    ELSE s

\* ------------------------------------------------- credentials (creds.py)
\* The aliases the chat can name.  context.args is split on blanks, so an
\* alias argument is never empty and alias.strip() changes nothing.
CredAliases == {"a_tmb", "b_iobcorp", "cnrb", "d_xyz"}
CmdAliases == CredAliases \cup {"nocred"}

AliasText ==
    ("a_tmb" :> <<"a","_","t","m","b">>) @@
    ("b_iobcorp" :> <<"b","_","i","o","b","c","o","r","p">>) @@
    ("cnrb" :> <<"c","n","r","b">>) @@
    ("d_xyz" :> <<"d","_","x","y","z">>) @@
    ("e_kgb" :> <<"e","_","k","g","b">>) @@
    ("f_idbi" :> <<"f","_","i","d","b","i">>) @@
    ("g_idfc" :> <<"g","_","i","d","f","c">>) @@
    ("nocred" :> <<"n","o","c","r","e","d">>)

BANK_LABEL_BY_SUFFIX == <<
    <<<<"_","t","m","b">>, <<"T","M","B">>>>,
    <<<<"_","i","o","b","c","o","r","p">>, <<"I","O","B"," ","C","o","r","p","o","r","a","t","e">>>>,
    <<<<"_","i","o","b">>, <<"I","O","B">>>>,
    <<<<"_","k","g","b">>, <<"K","G","B">>>>,
    <<<<"_","i","d","b","i">>, <<"I","D","B","I">>>>,
    <<<<"_","i","d","f","c">>, <<"I","D","F","C">>>>,
    <<<<"_","c","a","n","a","r","a">>, <<"C","A","N","A","R","A">>>>,
    <<<<"_","c","n","r","b">>, <<"C","A","N","A","R","A">>>> >>

infer_bank_label_from_alias(alias) ==
    LET a == StrStrip(StrLower(alias))
        hits == {i \in 1..Len(BANK_LABEL_BY_SUFFIX) :
                    EndsWith(a, BANK_LABEL_BY_SUFFIX[i][1])}
    IN  IF hits # {}
        THEN BANK_LABEL_BY_SUFFIX[CHOOSE i \in hits : \A j \in hits : i <= j][2]
        ELSE StrUpper(LastToken(a))

\* the first of username, login_id, user_id that is not blank; <<>>: None
canonical_auth_id(username, login_id, user_id) ==
    LET vs == <<StrStrip(username), StrStrip(login_id), StrStrip(user_id)>>
        hits == {i \in 1..3 : vs[i] # <<>>}
    IN  IF hits = {} THEN <<>> ELSE vs[CHOOSE i \in hits : \A j \in hits : i <= j]

\* load_creds over the rows of the file, in file order: a row without an
\* alias, an auth id, a password or an account number is skipped, a later
\* row of an alias overwrites an earlier one, every value is stripped and
\* bank_label is inferred from the alias.  (An alias is an atom here; its
\* characters are AliasText.)
load_creds(rows) ==
    LET auth(r) == canonical_auth_id(r.username, r.login_id, r.user_id)
        kept == {i \in 1..Len(rows) :
                    /\ rows[i].alias # ""
                    /\ auth(rows[i]) # <<>>
                    /\ StrStrip(rows[i].password) # <<>>
                    /\ StrStrip(rows[i].account_number) # <<>>}
        row(a) == rows[CHOOSE i \in kept :
                         /\ rows[i].alias = a
                         /\ \A j \in kept : rows[j].alias = a => j <= i]
    IN  [a \in {rows[i].alias : i \in kept} |->
           [alias |-> a,
            auth_id |-> auth(row(a)),
            password |-> StrStrip(row(a).password),
            account_number |-> StrStrip(row(a).account_number),
            bank_label |-> infer_bank_label_from_alias(AliasText[a]),
            login_id |-> StrStrip(row(a).login_id),
            user_id |-> StrStrip(row(a).user_id),
            username |-> StrStrip(row(a).username)]]

\* a credentials file with one complete row for each alias of S
RECURSIVE RowsFor(_)
RowsFor(S) ==
    IF S = {} THEN <<>>
    ELSE LET a == CHOOSE x \in S : TRUE
         IN  <<[alias |-> a, login_id |-> <<>>, user_id |-> <<>>, username |-> <<"u">>,
                password |-> <<"p">>, account_number |-> AliasText[a]]>>
             \o RowsFor(S \ {a})

\* ------------------------------------- adapter choice (handlers/sessions.py)
\* (mutant) the label is compared as stored, without upper-casing
_normalize_bank_label_asis(label) ==
    IF label = <<>> THEN <<>>
    ELSE CollapseBlanks(ReplaceAmp(StrStrip(label)))

_normalize_bank_label(label) ==
    IF label = <<>> THEN <<>>
    ELSE CollapseBlanks(ReplaceAmp(StrUpper(StrStrip(label))))

WORKER_BY_BANK == <<
    <<<<"T","M","B">>, "TMB">>,
    <<<<"I","O","B">>, "IOB">>,
    <<<<"I","O","B"," ","C","O","R","P","O","R","A","T","E">>, "IOB">>,
    <<<<"K","G","B">>, "KGB">>,
    <<<<"K","E","R","A","L","A"," ","G","R","A","M","I","N"," ","B","A","N","K">>, "KGB">>,
    <<<<"I","D","B","I">>, "IDBI">>,
    <<<<"I","D","F","C">>, "IDFC">>,
    <<<<"C","A","N","A","R","A">>, "CANARA">> >>

_ALIASES == <<
    <<<<"I","N","D","I","A","N"," ","O","V","E","R","S","E","A","S"," ","B","A","N","K">>, <<"I","O","B">>>>,
    <<<<"I","O","B"," ","C","O","R","P">>, <<"I","O","B"," ","C","O","R","P","O","R","A","T","E">>>>,
    <<<<"I","O","B","-","C","O","R","P","O","R","A","T","E">>, <<"I","O","B"," ","C","O","R","P","O","R","A","T","E">>>>,
    <<<<"C","N","R","B">>, <<"C","A","N","A","R","A">>>> >>

\* dict.get(key, default) on a table of <<key, value>> pairs
TableGet(table, key, default) ==
    IF \E i \in 1..Len(table) : table[i][1] = key
    THEN table[CHOOSE i \in 1..Len(table) : table[i][1] = key][2]
    ELSE default

\* the worker class for a label, or "None"
_pick_worker_class(bank_label) ==
    LET lbl == _normalize_bank_label(bank_label)
    IN  TableGet(WORKER_BY_BANK, TableGet(_ALIASES, lbl, lbl), "None")

Banks == {"TMB", "IOB", "KGB", "IDBI", "IDFC", "CANARA"}

\* ------------------------------------------------ worker objects (threads)
WorkerIds == 1..MaxWorkers

\* a slot of `workers` no constructor has filled yet
NoWorker ==
    [alias |-> "", bank |-> "None", pc |-> "none", stop_evt |-> FALSE, quit |-> FALSE,
     retry_count |-> 0,     \* the local retry_count of run() (IOB, IDBI, IDFC)
     op |-> "none",         \* the portal operation in progress
     attempt |-> 0,         \* _run_with_retries: attempt
     max_retries |-> 0,     \* _run_with_retries: max_retries; 0 outside the wrapper
     exc |-> "none",        \* the exception being handled: "T" TimeoutException, "E" other
     calls |-> 0,           \* (history) invocations of func by the current wrapper call
     rw |-> "none",         \* (history) how the current wrapper call went
     ev |-> <<"none", "none">>,  \* (history) the last operation and how it ended
     prev |-> 0,            \* (history) retry_count before its last assignment
     lo |-> FALSE,          \* (history) a logged-out page is being recovered from
     cyc |-> "none",        \* (history) how the last _cycle_tabs call went
     resets |-> 0,          \* (history) _cycle_tabs calls since the last login
     cycle |-> 0,           \* the statement cycles begun so far (the clock)
     dir |-> {},            \* downloads/<alias>: the files in it
     before |-> {},         \* KGB, IDBI: the listing taken before the wait
     file |-> -1,           \* the path handed to the upload; -1: None
     up_attempt |-> 0,      \* the upload loop's attempt
     last_upload_at |-> 0,  \* self.last_upload_at; 0: None
     uploads |-> 0,         \* (history) upload calls made for this file
     pauses |-> 0,          \* (history) 2 s pauses made for this file
     n_upload_ok |-> 0,     \* (history) UPLOAD_OK events sent
     captcha |-> "none",    \* how the portal finds the CAPTCHA typed in
     wrongs |-> 0,          \* (history) wrong CAPTCHA solutions typed in
     bad |-> 0,             \* (history) solver.report_bad calls
     n_error |-> 0,         \* (history) ERROR events sent
     kinds |-> {},          \* (history) the kinds of the events sent so far
     cred |-> <<>>,         \* self.cred, the credential dict handed to the constructor
                            \* (followed in SpecStore only)
     typed |-> <<>>,        \* (history) what the last _login typed into the form
     tabs |-> [handles |-> <<>>,  \* driver.window_handles, in the order of opening
               current |-> 0,     \* the window the driver's commands go to
               made |-> 0,        \* (history) the windows opened so far
               todo |-> <<>>,     \* the handles a closing loop has still to visit
               new_handle |-> 0,  \* the tab opened by _cycle_tabs or for the upload
               original |-> 0,    \* original_handle of the upload
               win |-> 0],        \* self.iob_win (followed in SpecTabs only)
     otp_code |-> <<>>,     \* self.otp_code; <<>>: None (Canara, IDFC)
     captcha_code |-> <<>>, \* self.captcha_code; <<>>: None (all but IDFC)
     waited |-> 0,          \* the time spent in the current wait for a code, in
                            \* half seconds (the loops sleep 0.5 s)
     otp_at |-> "none",     \* (history) what the worker was doing when otp_code
                            \* was last set from the chat: "waiting" for an OTP
                            \* or "idle"; "used" once the code was typed in
     captcha_at |-> "none", \* (history) the same for captcha_code
     typed_at |-> "none",   \* (history) that mark of the code from the chat last
                            \* typed into the portal
     last_balance |-> <<>>, \* self.last_balance; <<>>: None
     bal_hist |-> <<>>]     \* (history) the balances read, with their times

\* BaseWorker.__init__ followed by Thread.start(): the thread is at the top
\* of run(), the stop flag is clear, the browser is open.
NewWorker(alias, cls) ==
    [NoWorker EXCEPT !.alias = alias, !.bank = cls, !.pc = "run"]

\* Thread.is_alive(): started and run() not yet returned
is_alive(wr) == wr.pc \notin {"none", "dead"}

\* BaseWorker.stop(): set the stop flag, quit the browser (errors swallowed)
stop(wr) == [wr EXCEPT !.stop_evt = TRUE, !.quit = TRUE]

\* the aliases the balance monitor is followed for
MonitorAliases == {"a_tmb", "b_iobcorp"}

\* the monitor before its first check; -1 and {} stand for a missing key
NoMonitor ==
    [now |-> 0, next_check |-> 0,
     last_alert_time |-> [a \in MonitorAliases |-> -1],
     triggered_thresholds |-> [a \in MonitorAliases |-> {}],
     sel |-> [a \in MonitorAliases |-> -1],        \* (history) threshold at the last check
     alerted_at |-> [a \in MonitorAliases |-> -1], \* (history) time of the last alert
                                                   \* since the last clear or reset
     n_alerts |-> [a \in MonitorAliases |-> 0],    \* (history) _send_alert calls
     n_delivered |-> [a \in MonitorAliases |-> 0], \* (history) alerts that reached
                                                   \* an alert group
     sending |-> [i |-> 0, now |-> 0, last_alert |-> -1, th |-> 0]]
                            \* the `await self._send_alert(...)` the check is
                            \* suspended in (followed in SpecInFlight only): the
                            \* registry entry, i = 0 for none, and the locals now,
                            \* last_alert and current_threshold.amount

\* messaging.py: the number of messages followed through the Messenger
MaxMsgs == 6

\* _send_message_with_retry, _send_photo_with_retry: max_retries
send_max_retries == 3

\* a send coroutine in flight: the pass of its retry loop, and whether it
\* carries a flush
SendStates == (0..(send_max_retries - 1)) \X BOOLEAN

\* Messenger.__init__
NoMessenger ==
    [debug |-> TRUE,
     _closed |-> FALSE,
     _buf |-> <<>>,            \* the buffered events, oldest first
     _flush_timer |-> "None",  \* "None", or the handle call_later returned:
                               \* "pending", "fired" or "cancelled"
     _consecutive_errors |-> 0,
     sending |-> [k \in SendStates |-> 0],  \* how many sends are in flight on
                                            \* the loop, by their state
     handed |-> 0,             \* (history) messages handed in so far
     fails_since_ok |-> 0,     \* (history) sends that failed all their attempts
                               \* since the last send that went through
     most_attempts |-> 0,      \* (history) the most attempts any send has had
     warned |-> FALSE]         \* (history) "Too many consecutive Telegram errors" logged

\* ------------------------------------------- the registry (an ordered dict)
RegGet(reg, alias) ==
    IF \E i \in 1..Len(reg) : reg[i].alias = alias
    THEN reg[CHOOSE i \in 1..Len(reg) : reg[i].alias = alias].wid
    ELSE 0

\* workers[alias] = worker: an existing key keeps its place
RegSet(reg, alias, wid) ==
    IF \E i \in 1..Len(reg) : reg[i].alias = alias
    THEN [i \in 1..Len(reg) |->
            IF reg[i].alias = alias THEN [alias |-> alias, wid |-> wid] ELSE reg[i]]
    ELSE Append(reg, [alias |-> alias, wid |-> wid])

\* workers.pop(alias, None)
RegPop(reg, alias) == SelectSeq(reg, LAMBDA e : e.alias # alias)

Idle == [pc |-> "idle", alias |-> "", wid |-> 0, queue |-> <<>>, began |-> {}]

Reply(op, alias, result, wid, began) ==
    [op |-> op, alias |-> alias, result |-> result, wid |-> wid, began |-> began]

\* ------------------------------------------------------------ StartWorker
\* start_worker_for_alias: one synchronous call on the chat I/O loop.
\* `built` is whether constructing the worker (launching Chrome) succeeded.
start_worker_for_alias(alias) ==
    /\ handler.pc = "idle"
    /\ UNCHANGED <<msgr, csv, monitor, creds_by_alias, handler, failMode>>
    /\ LET existing == RegGet(registry, alias) IN
       IF alias \notin DOMAIN creds_by_alias
       THEN /\ last' = Reply("start", alias, "unknown", 0, {})
            /\ UNCHANGED <<registry, workers, nworkers>>
       ELSE IF existing # 0 /\ is_alive(workers[existing])
       THEN /\ last' = Reply("start", alias, "already", 0, {})
            /\ UNCHANGED <<registry, workers, nworkers>>
       ELSE LET worker_cls == _pick_worker_class(creds_by_alias[alias].bank_label) IN
            IF worker_cls = "None"
            THEN /\ last' = Reply("start", alias, "unsupported", 0, {})
                 /\ UNCHANGED <<registry, workers, nworkers>>
            ELSE \E built \in BOOLEAN :
                 IF ~built
                 THEN /\ last' = Reply("start", alias, "failed", 0, {})
                      /\ UNCHANGED <<registry, workers, nworkers>>
                 ELSE /\ nworkers < MaxWorkers
                      /\ nworkers' = nworkers + 1
                      /\ workers' = [workers EXCEPT
                                        ![nworkers + 1] = NewWorker(alias, worker_cls)]
                      /\ registry' = RegSet(registry, alias, nworkers + 1)
                      /\ last' = Reply("start", alias, "started", nworkers + 1, {})

\* ------------------------------------------------------------- StopWorker
\* stop_cmd, one alias: up to the blocking w.join(timeout=5.0)
stop_cmd(alias) ==
    /\ handler.pc = "idle"
    /\ UNCHANGED <<msgr, csv, monitor, creds_by_alias, registry, nworkers, failMode>>
    /\ LET w == RegGet(registry, alias) IN
       IF w = 0 \/ ~is_alive(workers[w])
       THEN /\ last' = Reply("stop", alias, "not_running", w, {})
            /\ UNCHANGED <<workers, handler>>
       ELSE /\ workers' = [workers EXCEPT ![w] = stop(workers[w])]
            /\ handler' = [Idle EXCEPT !.pc = "stop_join", !.alias = alias, !.wid = w]
            /\ UNCHANGED last

\* (mutant) /stop leaves the alias in the registry after the join
stop_cmd_joined_keeps ==
    /\ handler.pc = "stop_join"
    /\ registry' = registry
    /\ last' = Reply("stop", handler.alias,
                     IF is_alive(workers[handler.wid]) THEN "stopped_timeout"
                                                       ELSE "stopped",
                     handler.wid, {})
    /\ handler' = Idle
    /\ UNCHANGED <<msgr, csv, monitor, creds_by_alias, workers, nworkers, failMode>>

\* join returned (the thread ended, or 5 s passed with the thread still
\* alive); the entry is popped either way
stop_cmd_joined ==
    /\ handler.pc = "stop_join"
    /\ registry' = RegPop(registry, handler.alias)
    /\ last' = Reply("stop", handler.alias,
                     IF is_alive(workers[handler.wid]) THEN "stopped_timeout"
                                                       ELSE "stopped",
                     handler.wid, {})
    /\ handler' = Idle
    /\ UNCHANGED <<msgr, csv, monitor, creds_by_alias, workers, nworkers, failMode>>

\* ---------------------------------------------------------------- StopAll
\* the handler state after one alias of the /stopall loop is done: its
\* finally clause pops the alias; after the last alias the reply is sent
stopall_popped(reg, h) ==
    IF Len(h.queue) > 1
    THEN /\ handler' = [h EXCEPT !.pc = "stopall", !.queue = Tail(h.queue)]
         /\ UNCHANGED last
    ELSE /\ handler' = Idle
         /\ last' = Reply("stopall", "", "done", 0, h.began)

\* stopall_cmd: snapshot list(workers.items()).  `began` remembers every
\* worker thread alive at this moment, registered or not.
stopall_cmd ==
    /\ handler.pc = "idle"
    /\ UNCHANGED <<msgr, csv, monitor, creds_by_alias, registry, workers, nworkers, failMode>>
    /\ LET alive == {w \in WorkerIds : is_alive(workers[w])}
       IN  IF registry = <<>>
           THEN /\ last' = Reply("stopall", "", "none_running", 0, alive)
                /\ UNCHANGED handler
           ELSE /\ handler' = [Idle EXCEPT !.pc = "stopall", !.queue = registry,
                                           !.began = alive]
                /\ UNCHANGED last

\* (mutant) the alias is popped only after a worker was stopped, as in /stop
stopall_next_keepdead ==
    /\ handler.pc = "stopall"
    /\ UNCHANGED <<msgr, csv, monitor, creds_by_alias, nworkers, failMode>>
    /\ LET e == Head(handler.queue) IN
       IF is_alive(workers[e.wid])
       THEN /\ workers' = [workers EXCEPT ![e.wid] = stop(workers[e.wid])]
            /\ handler' = [handler EXCEPT !.pc = "stopall_join"]
            /\ UNCHANGED <<registry, last>>
       ELSE /\ registry' = registry
            /\ stopall_popped(registry, handler)
            /\ UNCHANGED workers

\* one iteration of the loop, up to w.join or, for a dead worker, to the end
stopall_next ==
    /\ handler.pc = "stopall"
    /\ UNCHANGED <<msgr, csv, monitor, creds_by_alias, nworkers, failMode>>
    /\ LET e == Head(handler.queue) IN
       IF is_alive(workers[e.wid])
       THEN /\ workers' = [workers EXCEPT ![e.wid] = stop(workers[e.wid])]
            /\ handler' = [handler EXCEPT !.pc = "stopall_join"]
            /\ UNCHANGED <<registry, last>>
       ELSE /\ registry' = RegPop(registry, e.alias)
            /\ stopall_popped(registry, handler)
            /\ UNCHANGED workers

stopall_joined ==
    /\ handler.pc = "stopall_join"
    /\ registry' = RegPop(registry, Head(handler.queue).alias)
    /\ stopall_popped(registry, handler)
    /\ UNCHANGED <<msgr, csv, monitor, creds_by_alias, workers, nworkers, failMode>>

\* ------------------------------------------------- worker threads, coarse
\* run() of every adapter is  try: <body>  finally: self.stop().
\* The body ends when it sees the stop flag, when the adapter gives up, or
\* by an exception.
RunBodyEnds(w) ==
    /\ workers[w].pc = "run"
    /\ workers' = [workers EXCEPT ![w].pc = "finally"]
    /\ UNCHANGED <<msgr, csv, monitor, creds_by_alias, registry, nworkers, handler, last, failMode>>


\* ----------------------------------------------- worker threads, in detail
\* One worker thread followed through run().  A portal operation is one of
\* "login", "nav", "fetch", "balance"; it ends by returning or by raising.
max_retries_default == 3
balance_max_retries == 2
max_outer_retries == 5

FailModes == {"none", "all", "fetch"}

\* whether the portal can let operation op return normally: not once the
\* browser is gone, and not against the environment's failure mode
CanSucceed(wr, op) ==
    /\ ~wr.quit
    /\ failMode # "all"
    /\ ~(failMode = "fetch" /\ op = "fetch")

\* the call sites that go through self._run_with_retries
Wrapped(bank, op) ==
    \/ bank \in {"TMB", "KGB", "CANARA"}
    \/ bank \in {"IDBI", "IDFC"} /\ op = "fetch"

\* the worker about to perform op: at the top of _run_with_retries, or at
\* the call itself where the adapter calls the step directly
Enter(wr, op) ==
    IF Wrapped(wr.bank, op)
    THEN [wr EXCEPT !.pc = "retry_head", !.op = op, !.attempt = 0,
                    !.calls = 0, !.rw = "running",
                    !.max_retries = IF op = "balance" THEN balance_max_retries
                                                      ELSE max_retries_default]
    ELSE [wr EXCEPT !.pc = "call", !.op = op, !.attempt = 0,
                    !.calls = 0, !.rw = "none", !.max_retries = 0]

\* (mutant) login returns and the counter is left alone
reset_after_login_skip(wr) == wr

\* retry_count = 0 on the line after self._login()
reset_after_login(wr) ==
    [wr EXCEPT !.retry_count = 0, !.prev = wr.retry_count, !.resets = 0]

\* (mutant) the handler does not count the failure
count_failure_skip(wr) == wr

\* retry_count += 1 at the top of the except clauses
count_failure(wr) ==
    [wr EXCEPT !.retry_count = wr.retry_count + 1, !.prev = wr.retry_count]

\* where run() goes on when wr.op has returned (also when the wrapper
\* returned None without calling it)
AfterOk(wr) ==
    LET b == wr.bank
        o == wr.op
    IN  CASE o = "login" /\ b \in {"TMB", "KGB", "CANARA"} ->
                [wr EXCEPT !.pc = "steady_head"]
          [] o = "login" /\ b \in {"IOB", "IDFC"} ->
                [reset_after_login(wr) EXCEPT !.pc = "steady_head"]
          [] o = "login" /\ b = "IDBI" -> Enter(reset_after_login(wr), "nav")
          [] o = "nav" /\ b = "KGB" -> Enter(wr, "fetch")
          [] o = "nav" /\ b # "KGB" -> [wr EXCEPT !.pc = "steady_head"]
          [] o = "fetch" /\ b = "CANARA" -> Enter(wr, "balance")
          [] o = "fetch" /\ b = "IOB" -> [wr EXCEPT !.pc = "check_lo", !.op = "balance"]
          [] OTHER -> [wr EXCEPT !.pc = "sleep60"]

\* where an exception raised by wr.op (directly or by the wrapper) lands
AfterRaise(wr) ==
    LET b == wr.bank
        o == wr.op
    IN  CASE b = "TMB" -> [wr EXCEPT !.pc = "finally"]
          [] b = "KGB" /\ o = "login" -> [wr EXCEPT !.pc = "finally"]
          [] b \in {"CANARA", "IOB"} /\ o = "balance" -> [wr EXCEPT !.pc = "sleep60"]
          [] OTHER -> [wr EXCEPT !.pc = "except"]

\* func raised e: inside the wrapper the attempt is counted, outside the
\* exception goes to the adapter
Raised(wr, e) ==
    IF wr.max_retries > 0
    THEN [wr EXCEPT !.exc = e, !.attempt = wr.attempt + 1, !.pc = "retry_failed"]
    ELSE AfterRaise([wr EXCEPT !.exc = e])

\* IOBWorker._cycle_tabs never raises; when it cannot switch to the fresh
\* tab it sets the stop flag
CycleOutcomes(wr) ==
    IF wr.quit THEN {"nowin"} ELSE {"ok", "nowin", "nonew", "switchfail"}

_cycle_tabs(wr, outcome) ==
    [wr EXCEPT !.resets = wr.resets + 1, !.cyc = outcome,
               !.stop_evt = wr.stop_evt \/ outcome = "switchfail"]

OnlyWorkers == UNCHANGED <<msgr, csv, monitor, creds_by_alias, registry, nworkers, handler, last, failMode>>

\* run(), up to its first statement inside try
run(w) ==
    LET wr == workers[w] IN
    /\ wr.pc = "run"
    /\ workers' = [workers EXCEPT ![w] =
                      IF wr.bank \in {"TMB", "KGB"} THEN Enter(wr, "login")
                      ELSE [wr EXCEPT !.pc = "outer_head"]]
    /\ OnlyWorkers

\* the outer  while not self.stop_evt.is_set()  of CANARA, IOB, IDBI, IDFC
outer_head(w) ==
    LET wr == workers[w] IN
    /\ wr.pc = "outer_head"
    /\ workers' = [workers EXCEPT ![w] =
                      IF wr.stop_evt THEN [wr EXCEPT !.pc = "finally"]
                      ELSE Enter([wr EXCEPT !.lo = FALSE, !.cyc = "none"], "login")]
    /\ OnlyWorkers

\* the steady-state  while not self.stop_evt.is_set()
steady_head(w) ==
    LET wr == workers[w] IN
    /\ wr.pc = "steady_head"
    /\ workers' = [workers EXCEPT ![w] =
          IF wr.stop_evt
          THEN [wr EXCEPT !.pc = IF wr.bank \in {"CANARA", "IOB"} THEN "outer_head"
                                                                   ELSE "finally"]
          ELSE CASE wr.bank = "KGB" -> Enter(wr, "nav")
                 [] wr.bank = "IOB" -> [wr EXCEPT !.pc = "check_lo", !.op = "fetch"]
                 [] OTHER -> Enter(wr, "fetch")]
    /\ OnlyWorkers

\* (mutant) the wrapper starts an attempt without looking at the stop flag
retry_head_nostop(w) ==
    LET wr == workers[w] IN
    /\ wr.pc = "retry_head"
    /\ workers' = [workers EXCEPT ![w] =
          IF wr.attempt >= wr.max_retries
          THEN AfterOk([wr EXCEPT !.rw = "none", !.max_retries = 0])
          ELSE [wr EXCEPT !.pc = "call", !.calls = wr.calls + 1]]
    /\ OnlyWorkers

\* _run_with_retries:  while not self.stop_evt.is_set() and attempt < max_retries
\* Entering the loop body is the start of an attempt; leaving the loop
\* returns None to the caller.
retry_head(w) ==
    LET wr == workers[w] IN
    /\ wr.pc = "retry_head"
    /\ workers' = [workers EXCEPT ![w] =
          IF wr.stop_evt \/ wr.attempt >= wr.max_retries
          THEN AfterOk([wr EXCEPT !.rw = "none", !.max_retries = 0])
          ELSE [wr EXCEPT !.pc = "call", !.calls = wr.calls + 1]]
    /\ OnlyWorkers

\* _run_with_retries, after a failed attempt has been reported:
\* if attempt >= max_retries or self.stop_evt.is_set(): raise
retry_failed(w) ==
    LET wr == workers[w] IN
    /\ wr.pc = "retry_failed"
    /\ workers' = [workers EXCEPT ![w] =
          IF wr.attempt >= wr.max_retries \/ wr.stop_evt
          THEN AfterRaise([wr EXCEPT !.rw = "raised", !.max_retries = 0])
          ELSE [wr EXCEPT !.pc = "retry_sleep"]]
    /\ OnlyWorkers

\* time.sleep: retry_sleep in the wrapper, 60 s at the end of a cycle, 5 s
\* after Canara's fatal report.  The flag is not looked at while asleep.
time_sleep(w) ==
    LET wr == workers[w] IN
    /\ wr.pc \in {"retry_sleep", "sleep60", "fatal_sleep"}
    /\ workers' = [workers EXCEPT ![w].pc =
                      CASE wr.pc = "retry_sleep" -> "retry_head"
                        [] wr.pc = "sleep60" -> "steady_head"
                        [] OTHER -> "outer_head"]
    /\ OnlyWorkers

\* the portal operation itself: it returns, it raises, or (login of CANARA
\* and IDFC) it comes to wait for a code from the chat
Call(w) ==
    LET wr == workers[w] IN
    /\ wr.pc \in {"call", "call_rest"}
    /\ OnlyWorkers
    /\ \/ /\ CanSucceed(wr, wr.op)
          /\ workers' = [workers EXCEPT ![w] =
                AfterOk([wr EXCEPT !.ev = <<wr.op, "ok">>, !.max_retries = 0,
                                   !.rw = IF wr.max_retries > 0 THEN "ok" ELSE wr.rw])]
       \/ \E e \in (IF wr.quit THEN {"E"} ELSE {"T", "E"}) :
            workers' = [workers EXCEPT ![w] =
                Raised([wr EXCEPT !.ev = <<wr.op, "fail">>], e)]
       \/ /\ wr.pc = "call" /\ wr.op = "login" /\ ~wr.quit /\ failMode # "all"
          /\ \/ wr.bank = "CANARA" /\ workers' = [workers EXCEPT ![w].pc = "captcha_wait"]
             \/ wr.bank \in {"CANARA", "IDFC"}
                /\ workers' = [workers EXCEPT ![w].pc = "otp_wait"]

\* handlers/captcha.py hands the operator's code to the worker, whose wait
\* loop picks it up the next time round
code_arrives(w) ==
    LET wr == workers[w] IN
    /\ wr.pc \in {"captcha_wait", "otp_wait"}
    /\ ~wr.stop_evt
    /\ \E nxt \in (IF wr.pc = "captcha_wait" THEN {"otp_wait", "call_rest"}
                                            ELSE {"call_rest"}) :
          workers' = [workers EXCEPT ![w].pc = nxt]
    /\ OnlyWorkers

\* (mutant) the wait loops go on polling whatever the stop flag says
wait_poll_nostop(w) ==
    LET wr == workers[w] IN
    /\ wr.pc \in {"captcha_wait", "otp_wait"}
    /\ ~(wr.bank = "CANARA" /\ wr.pc = "otp_wait")
    /\ workers' = [workers EXCEPT ![w] =
                      Raised([wr EXCEPT !.ev = <<"login", "wait_expired">>], "T")]
    /\ OnlyWorkers

\* the wait loops of login: Canara's manual CAPTCHA (180 s), Canara's OTP
\* (no deadline), IDFC's OTP (300 s).  Each looks at the stop flag twice a
\* second.  Stopped, Canara raises TimeoutException and IDFC's _login
\* returns; past the deadline both raise TimeoutException.
wait_poll(w) ==
    LET wr == workers[w] IN
    /\ wr.pc \in {"captcha_wait", "otp_wait"}
    /\ OnlyWorkers
    /\ IF wr.stop_evt
       THEN workers' = [workers EXCEPT ![w] =
               IF wr.bank = "IDFC"
               THEN AfterOk([wr EXCEPT !.ev = <<"login", "abandoned">>])
               ELSE Raised([wr EXCEPT !.ev = <<"login", "stop_in_wait">>], "T")]
       ELSE /\ ~(wr.bank = "CANARA" /\ wr.pc = "otp_wait")
            /\ workers' = [workers EXCEPT ![w] =
                  Raised([wr EXCEPT !.ev = <<"login", "wait_expired">>], "T")]

\* IOBWorker._check_logged_out_and_cycle, before wr.op: on the logged-out
\* page it cycles the tabs and raises TimeoutException.  A page source that
\* cannot be read counts as not logged out.
_check_logged_out_and_cycle(w) ==
    LET wr == workers[w] IN
    /\ wr.pc = "check_lo"
    /\ OnlyWorkers
    /\ \/ workers' = [workers EXCEPT ![w] = Enter(wr, wr.op)]
       \/ /\ ~wr.quit
          /\ \E outcome \in CycleOutcomes(wr) :
                workers' = [workers EXCEPT ![w] =
                    _cycle_tabs([wr EXCEPT !.lo = TRUE, !.exc = "T", !.pc = "except",
                                           !.ev = <<wr.op, "logged_out">>],
                                outcome)]

\* the except clause of the adapter's loop.
\*   KGB, IDBI, IDFC call self._cycle_tabs(), which these classes do not
\*   define: AttributeError leaves run() through finally.  IDBI and IDFC have
\*   counted the failure before.
\*   CANARA reports and sleeps 5 s.
\*   IOB counts the failure, gives up above max_retries, else cycles tabs.
except_handler(w) ==
    LET wr == workers[w] IN
    /\ wr.pc = "except"
    /\ OnlyWorkers
    /\ CASE wr.bank = "KGB" -> workers' = [workers EXCEPT ![w].pc = "finally"]
         [] wr.bank = "CANARA" -> workers' = [workers EXCEPT ![w].pc = "fatal_sleep"]
         [] wr.bank \in {"IDBI", "IDFC"} ->
               workers' = [workers EXCEPT ![w] =
                              [count_failure(wr) EXCEPT !.pc = "finally"]]
         [] OTHER ->
               IF count_failure(wr).retry_count > max_outer_retries
               THEN workers' = [workers EXCEPT ![w] =
                                   [count_failure(wr) EXCEPT !.pc = "finally"]]
               ELSE \E outcome \in CycleOutcomes(wr) :
                       workers' = [workers EXCEPT ![w] =
                           [_cycle_tabs(count_failure(wr), outcome)
                               EXCEPT !.pc = "outer_head"]]

\* (mutant) the thread ends without the finally clause
RunFinally_skipped(w) ==
    /\ workers[w].pc = "finally"
    /\ workers' = [workers EXCEPT ![w].pc = "dead"]
    /\ OnlyWorkers

\* finally: self.stop(), then the thread ends
RunFinally(w) ==
    /\ workers[w].pc = "finally"
    /\ workers' = [workers EXCEPT ![w] = [stop(workers[w]) EXCEPT !.pc = "dead"]]
    /\ UNCHANGED <<msgr, csv, monitor, creds_by_alias, registry, nworkers, handler, last, failMode>>

\* ------------------------------------------------------- specification 1
Init ==
    /\ creds_by_alias = load_creds(RowsFor(CredAliases))
    /\ registry = <<>>
    /\ workers = [w \in WorkerIds |-> NoWorker]
    /\ nworkers = 0
    /\ handler = Idle
    /\ last = Reply("none", "", "none", 0, {})
    /\ failMode = "none"
    /\ monitor = NoMonitor
    /\ msgr = NoMessenger
    /\ csv = <<>>

Next ==
    \/ \E a \in CmdAliases : start_worker_for_alias(a)
    \/ \E a \in CmdAliases : stop_cmd(a)
    \/ stop_cmd_joined
    \/ stopall_cmd
    \/ stopall_next
    \/ stopall_joined
    \/ \E w \in WorkerIds : RunBodyEnds(w)
    \/ \E w \in WorkerIds : RunFinally(w)

Spec == Init /\ [][Next]_vars

\* ------------------------------------------------------- specification 2
\* The aliases of the credentials file, one per adapter
WorkerAliases == {"a_tmb", "b_iobcorp", "cnrb", "e_kgb", "f_idbi", "g_idfc"}

\* /run alias has just started the worker
InitWorker ==
    \E a \in WorkerAliases : \E fm \in FailModes :
        /\ creds_by_alias = load_creds(RowsFor(WorkerAliases))
        /\ registry = <<[alias |-> a, wid |-> 1]>>
        /\ workers = [w \in WorkerIds |->
                        IF w = 1
                        THEN NewWorker(a, _pick_worker_class(
                                 load_creds(RowsFor(WorkerAliases))[a].bank_label))
                        ELSE NoWorker]
        /\ nworkers = 1
        /\ handler = Idle
        /\ last = Reply("start", a, "started", 1, {})
        /\ failMode = fm
        /\ monitor = NoMonitor
        /\ msgr = NoMessenger
        /\ csv = <<>>

\* the statements of one worker thread
WorkerStep(w) ==
    \/ run(w)
    \/ outer_head(w)
    \/ steady_head(w)
    \/ retry_head(w)
    \/ Call(w)
    \/ retry_failed(w)
    \/ time_sleep(w)
    \/ wait_poll(w)
    \/ _check_logged_out_and_cycle(w)
    \/ except_handler(w)
    \/ RunFinally(w)

NextWorker ==
    \/ \E w \in WorkerIds : WorkerStep(w)
    \/ \E w \in WorkerIds : code_arrives(w)
    \/ \E a \in WorkerAliases : stop_cmd(a)
    \/ stop_cmd_joined

SpecWorker == InitWorker /\ [][NextWorker]_vars

\* A started thread that can take a step is scheduled; sleeps and timed
\* waits run out.  Nothing obliges the operator to send a code or a command.
FairWorker == SpecWorker /\ \A w \in WorkerIds : WF_vars(WorkerStep(w))

\* --------------------------------------------- the statement step, in detail
\* One logged-in worker followed through its statement step: click the
\* download, wait for the file in downloads/<alias>, upload it to AutoBank.
\* Time is counted in cycles; a file is named by the cycle in which it
\* appeared (0: left by an earlier run of the alias).
MaxCycles == 2
upload_max_attempts == 5

\* msg contains pat (Python's  pat in msg), on texts split into words
Contains(msg, pat) ==
    \E i \in 0..(Len(msg) - Len(pat)) : SubSeq(msg, i + 1, i + Len(pat)) = pat

\* the f-string each adapter passes to self.info after a successful upload
UploadOkMsg(bank) ==
    IF bank = "CANARA"
    THEN <<"AutoBank", "upload", "(Canara)", "succeeded", "(attempt", "n/5)">>
    ELSE IF bank = "TMB"
    THEN <<"AutoBank", "upload", "succeeded">>
    ELSE <<"AutoBank", "upload", "succeeded", "(attempt", "n/5)">>

\* BaseWorker.info: a message containing "AutoBank upload succeeded" stamps
\* last_upload_at and goes out as UPLOAD_OK, any other as INFO
info(wr, msg) ==
    IF Contains(msg, <<"AutoBank", "upload", "succeeded">>)
    THEN [wr EXCEPT !.last_upload_at = wr.cycle, !.n_upload_ok = wr.n_upload_ok + 1,
                    !.kinds = wr.kinds \cup {"UPLOAD_OK"}]
    ELSE [wr EXCEPT !.kinds = wr.kinds \cup {"INFO"}]

\* the files the wait looks at: KGB and IDBI leave out those listed before
\* the wait began, the others (BaseWorker.wait_newest_file) take them all
Candidates(wr) ==
    IF wr.bank \in {"KGB", "IDBI"} THEN wr.dir \ wr.before ELSE wr.dir

\* max(files, key=ctime)
newest(files) == CHOOSE f \in files : \A g \in files : g <= f

\* the statement step begins: the portal is driven to the download button
click_download(w) ==
    LET wr == workers[w] IN
    /\ wr.pc = "fetch_start"
    /\ wr.cycle < MaxCycles
    /\ OnlyWorkers
    /\ \/ workers' = [workers EXCEPT ![w] =
             [wr EXCEPT !.cycle = wr.cycle + 1, !.file = -1, !.up_attempt = 0,
                        !.uploads = 0, !.pauses = 0, !.before = {},
                        !.pc = IF wr.bank \in {"KGB", "IDBI"} THEN "snapshot"
                                                              ELSE "wait_file"]]
       \/ workers' = [workers EXCEPT ![w] =
             [wr EXCEPT !.cycle = wr.cycle + 1, !.file = -1, !.up_attempt = 0,
                        !.uploads = 0, !.pauses = 0, !.before = {},
                        !.pc = "fetch_raised"]]

\* KGB, IDBI:  before = set(os.listdir(self.download_dir))
snapshot_before(w) ==
    /\ workers[w].pc = "snapshot"
    /\ workers' = [workers EXCEPT ![w].before = workers[w].dir,
                                  ![w].pc = "wait_file"]
    /\ OnlyWorkers

\* the browser finishes writing the statement file of this cycle
file_lands(w) ==
    LET wr == workers[w] IN
    /\ wr.pc \in {"snapshot", "wait_file"}
    /\ wr.cycle \notin wr.dir
    /\ workers' = [workers EXCEPT ![w].dir = wr.dir \cup {wr.cycle}]
    /\ OnlyWorkers

\* the wait for the download: the newest candidate as soon as there is one;
\* None at the deadline or when the stop flag is set, and the step raises
wait_newest_file(w) ==
    LET wr == workers[w] IN
    /\ wr.pc = "wait_file"
    /\ OnlyWorkers
    /\ IF Candidates(wr) # {} /\ ~(wr.stop_evt /\ wr.bank \notin {"KGB", "IDBI"})
       THEN workers' = [workers EXCEPT ![w].file = newest(Candidates(wr)),
                                       ![w].pc = "upload"]
       ELSE workers' = [workers EXCEPT ![w].pc = "fetch_raised"]

\* one AutoBankClient(d).upload(...) call and what follows it
upload(w) ==
    LET wr == workers[w]
        n == wr.up_attempt + 1
    IN
    /\ wr.pc = "upload"
    /\ OnlyWorkers
    /\ \/ workers' = [workers EXCEPT ![w] =
             [info([wr EXCEPT !.up_attempt = n, !.uploads = wr.uploads + 1],
                   UploadOkMsg(wr.bank))
                 EXCEPT !.pc = "fetch_done"]]
       \/ workers' = [workers EXCEPT ![w] =
             [wr EXCEPT !.up_attempt = n, !.uploads = wr.uploads + 1,
                        !.pc = IF wr.bank = "TMB" \/ n = upload_max_attempts
                               THEN "fetch_raised"
                               ELSE IF wr.bank = "IOB" THEN "upload"
                               ELSE "upload_pause"]]

\* time.sleep(2) between two attempts
upload_pause(w) ==
    /\ workers[w].pc = "upload_pause"
    /\ workers' = [workers EXCEPT ![w].pauses = workers[w].pauses + 1,
                                  ![w].pc = "upload"]
    /\ OnlyWorkers

\* the step has returned or raised; the loop of run() comes round again
next_cycle(w) ==
    /\ workers[w].pc \in {"fetch_done", "fetch_raised"}
    /\ workers[w].cycle < MaxCycles
    /\ workers' = [workers EXCEPT ![w].pc = "fetch_start"]
    /\ OnlyWorkers

\* ------------------------------------------------------- specification 3
\* a logged-in worker at the top of its statement step, its download
\* directory empty or holding a file of an earlier run
InitFetch ==
    \E a \in WorkerAliases : \E old \in SUBSET {0} :
        /\ creds_by_alias = load_creds(RowsFor(WorkerAliases))
        /\ registry = <<[alias |-> a, wid |-> 1]>>
        /\ workers = [w \in WorkerIds |->
                        IF w = 1
                        THEN [NewWorker(a, _pick_worker_class(
                                  load_creds(RowsFor(WorkerAliases))[a].bank_label))
                                EXCEPT !.pc = "fetch_start", !.dir = old]
                        ELSE NoWorker]
        /\ nworkers = 1
        /\ handler = Idle
        /\ last = Reply("start", a, "started", 1, {})
        /\ failMode = "none"
        /\ monitor = NoMonitor
        /\ msgr = NoMessenger
        /\ csv = <<>>

NextFetch ==
    \/ \E w \in WorkerIds : click_download(w)
    \/ \E w \in WorkerIds : snapshot_before(w)
    \/ \E w \in WorkerIds : file_lands(w)
    \/ \E w \in WorkerIds : wait_newest_file(w)
    \/ \E w \in WorkerIds : upload(w)
    \/ \E w \in WorkerIds : upload_pause(w)
    \/ \E w \in WorkerIds : next_cycle(w)

SpecFetch == InitFetch /\ [][NextFetch]_vars

\* ------------------------------------------------- the login, in detail
\* One worker followed through _login and what the adapter does when it
\* fails: the CAPTCHA solution is typed, the portal's complaint is looked for,
\* the logged-in page is waited for.
MaxWrong == 3

CaptchaAliases == {"a_tmb", "b_iobcorp", "cnrb", "e_kgb", "f_idbi"}

\* BaseWorker.error: one ERROR event through the Messenger
error(wr) == [wr EXCEPT !.n_error = wr.n_error + 1, !.kinds = wr.kinds \cup {"ERROR"}]

\* _login up to the click on the login button: the solver's answer is typed
\* in; the portal will find it right or wrong
login_submit(w) ==
    LET wr == workers[w] IN
    /\ wr.pc = "login_submit"
    /\ OnlyWorkers
    /\ IF wr.stop_evt
       THEN workers' = [workers EXCEPT ![w].pc = "finally"]
       ELSE \E c \in (IF wr.wrongs < MaxWrong THEN {"wrong", "right"} ELSE {"right"}) :
               workers' = [workers EXCEPT ![w].captcha = c,
                              ![w].wrongs = wr.wrongs + (IF c = "wrong" THEN 1 ELSE 0),
                              ![w].pc = "login_check"]

\* the look for the portal's wrong-CAPTCHA text (IOB, KGB, IDBI); the
\* TimeoutException raised on finding it is caught by the same try
login_check_captcha(w) ==
    LET wr == workers[w]
        rb == [wr EXCEPT !.bad = wr.bad + 1, !.pc = "login_confirm"]
    IN
    /\ wr.pc = "login_check"
    /\ OnlyWorkers
    /\ IF wr.captcha = "wrong" /\ wr.bank = "IOB"
       THEN \E outcome \in CycleOutcomes(wr) :
               workers' = [workers EXCEPT ![w] = _cycle_tabs(error(rb), outcome)]
       ELSE workers' = [workers EXCEPT ![w] =
               CASE wr.captcha = "wrong" /\ wr.bank = "IDBI" -> error(rb)
                 [] wr.captcha = "wrong" /\ wr.bank = "KGB" -> rb
                 [] OTHER -> [wr EXCEPT !.pc = "login_confirm"]]

\* the wait for the page behind the login.  It is there after a right
\* CAPTCHA, and _login says so with self.info and returns; after a wrong one the wait raises TimeoutException, which IOB's
\* ErrorContext and worker_method_error_wrapper each report and
\* _run_with_retries (TMB, KGB, CANARA) reports and counts as an attempt
login_confirm(w) ==
    LET wr == workers[w] IN
    /\ wr.pc = "login_confirm"
    /\ OnlyWorkers
    /\ workers' = [workers EXCEPT ![w] =
          IF wr.captcha = "right"
          THEN [info((IF wr.bank \in {"IOB", "IDBI"} THEN reset_after_login(wr) ELSE wr),
                     <<"Logged", "in">>)
                    EXCEPT !.pc = "steady"]
          ELSE CASE wr.bank = "IOB" -> [error(error(wr)) EXCEPT !.pc = "login_failed"]
                 [] wr.bank = "IDBI" -> [wr EXCEPT !.pc = "login_failed"]
                 [] OTHER ->
                       [error(wr) EXCEPT !.attempt = wr.attempt + 1,
                                         !.pc = IF wr.attempt + 1 >= max_retries_default
                                                THEN "login_failed"
                                                ELSE "login_submit"]]

\* the failed login reaches run():
\*   TMB reports and ends; KGB ends; CANARA reports and starts over;
\*   IDBI counts and reports the failure, then calls the _cycle_tabs it
\*   does not have; IOB counts the failure and cycles the tabs
login_failed(w) ==
    LET wr == workers[w] IN
    /\ wr.pc = "login_failed"
    /\ OnlyWorkers
    /\ CASE wr.bank = "TMB" ->
              workers' = [workers EXCEPT ![w] = [error(wr) EXCEPT !.pc = "finally"]]
         [] wr.bank = "KGB" -> workers' = [workers EXCEPT ![w].pc = "finally"]
         [] wr.bank = "CANARA" ->
              workers' = [workers EXCEPT ![w] =
                             [error(wr) EXCEPT !.attempt = 0, !.pc = "login_submit"]]
         [] wr.bank = "IDBI" ->
              workers' = [workers EXCEPT ![w] =
                  [(IF count_failure(wr).retry_count > max_outer_retries
                    THEN error(error(count_failure(wr)))
                    ELSE error(count_failure(wr))) EXCEPT !.pc = "finally"]]
         [] OTHER ->
              IF count_failure(wr).retry_count > max_outer_retries
              THEN workers' = [workers EXCEPT ![w] =
                      [error(count_failure(wr)) EXCEPT !.pc = "finally"]]
              ELSE \E outcome \in CycleOutcomes(wr) :
                      workers' = [workers EXCEPT ![w] =
                          [_cycle_tabs(count_failure(wr), outcome)
                              EXCEPT !.pc = "login_submit"]]

\* ------------------------------------------------------- specification 4
\* a started worker of an adapter that solves a CAPTCHA, about to log in
InitLogin ==
    \E a \in CaptchaAliases :
        /\ creds_by_alias = load_creds(RowsFor(WorkerAliases))
        /\ registry = <<[alias |-> a, wid |-> 1]>>
        /\ workers = [w \in WorkerIds |->
                        IF w = 1
                        THEN [NewWorker(a, _pick_worker_class(
                                  load_creds(RowsFor(WorkerAliases))[a].bank_label))
                                EXCEPT !.pc = "login_submit"]
                        ELSE NoWorker]
        /\ nworkers = 1
        /\ handler = Idle
        /\ last = Reply("start", a, "started", 1, {})
        /\ failMode = "none"
        /\ monitor = NoMonitor
        /\ msgr = NoMessenger
        /\ csv = <<>>

NextLogin ==
    \/ \E w \in WorkerIds : login_submit(w)
    \/ \E w \in WorkerIds : login_check_captcha(w)
    \/ \E w \in WorkerIds : login_confirm(w)
    \/ \E w \in WorkerIds : login_failed(w)
    \/ \E w \in WorkerIds : RunFinally(w)

SpecLogin == InitLogin /\ [][NextLogin]_vars

\* ------------------------------------------------------ the balance monitor
\* BalanceMonitor: every check_interval seconds it reads last_balance of each
\* registered worker and alerts on the ladder of THRESHOLDS.  Amounts that
\* come out of parsing are counted in hundredths of a rupee.
check_interval == 180
alert_repeat_interval == 300
MaxTime == 540
MaxChanges == 2

THRESHOLDS == <<50000, 60000, 70000, 90000, 100000>>

Digits == <<"0", "1", "2", "3", "4", "5", "6", "7", "8", "9">>
IsDigit(c) == \E i \in 1..10 : Digits[i] = c
DigitVal(c) == (CHOOSE i \in 1..10 : Digits[i] = c) - 1

\* the texts a portal page shows as the balance
BalanceTexts ==
    { <<"7","2",",","5","0","0",".","0","0">>,
      <<"I","N","R"," ","4","5",",","0","0","0",".","0","0">>,
      <<"1",",","0","0",",","0","0","0",".","5","0"," ","C","r">>,
      <<"5","0","0","0","0">>,
      <<"N","/","A">>,
      <<"1",".","2",".","3">> }

\* re.sub(r'[...]', '', s): drop every character of the class
RECURSIVE DropChars(_, _)
DropChars(s, class) ==
    IF s = <<>> THEN <<>>
    ELSE IF Head(s) \in class THEN DropChars(Tail(s), class)
    ELSE <<Head(s)>> \o DropChars(Tail(s), class)

\* the longest run of digits and dots at the front of s
RECURSIVE NumberRun(_)
NumberRun(s) ==
    IF s # <<>> /\ (IsDigit(Head(s)) \/ Head(s) = ".")
    THEN <<Head(s)>> \o NumberRun(Tail(s)) ELSE <<>>

\* re.search(r'[\d.]+', s).group(): the first such run in s, <<>> if none
RECURSIVE FirstNumber(_)
FirstNumber(s) ==
    IF s = <<>> THEN <<>>
    ELSE IF NumberRun(s) # <<>> THEN NumberRun(s)
    ELSE FirstNumber(Tail(s))

RECURSIVE IntOf(_)
IntOf(ds) == IF ds = <<>> THEN 0
             ELSE 10 * IntOf(SubSeq(ds, 1, Len(ds) - 1)) + DigitVal(ds[Len(ds)])

\* float(num), in hundredths; -1 where float raises ValueError
ToFloat(num) ==
    LET dots == {i \in 1..Len(num) : num[i] = "."}
        p == IF dots = {} THEN Len(num) + 1 ELSE CHOOSE i \in dots : TRUE
        whole == SubSeq(num, 1, p - 1)
        frac == SubSeq(num, p + 1, Len(num))
        frac2 == SubSeq(frac \o <<"0", "0">>, 1, 2)
    IN  IF Cardinality(dots) > 1 \/ Len(num) = Cardinality(dots) THEN -1
        ELSE 100 * IntOf(whole) + IntOf(frac2)

\* parse_balance_amount; -1 is None
parse_balance_amount(balance_str) ==
    LET cleaned == DropChars(StrUpper(balance_str), {"$", "I", "N", "R", " ", ","})
        tail == IF EndsWith(cleaned, <<"C", "R">>) \/ EndsWith(cleaned, <<"D", "R">>)
                THEN SubSeq(cleaned, 1, Len(cleaned) - 2)
                ELSE IF EndsWith(cleaned, <<"C","R","E","D","I","T">>)
                THEN SubSeq(cleaned, 1, Len(cleaned) - 6)
                ELSE IF EndsWith(cleaned, <<"D","E","B","I","T">>)
                THEN SubSeq(cleaned, 1, Len(cleaned) - 5)
                ELSE cleaned
    IN  IF balance_str = <<>> THEN -1
        ELSE IF FirstNumber(tail) = <<>> THEN -1
        ELSE ToFloat(FirstNumber(tail))

\* (mutant) a balance below the ladder is taken for its lowest amount
RECURSIVE current_threshold_floor(_, _)
current_threshold_floor(balance, i) ==
    IF i = 0 THEN THRESHOLDS[1]
    ELSE IF balance >= 100 * THRESHOLDS[i] THEN THRESHOLDS[i]
    ELSE current_threshold_floor(balance, i - 1)

\* (mutant) the ladder is walked from its lowest amount
RECURSIVE current_threshold_lowest(_, _)
current_threshold_lowest(balance, i) ==
    IF i = 0 THEN 0
    ELSE IF current_threshold_lowest(balance, i - 1) # 0
    THEN current_threshold_lowest(balance, i - 1)
    ELSE IF balance >= 100 * THRESHOLDS[i] THEN THRESHOLDS[i]
    ELSE 0

\* for threshold in reversed(THRESHOLDS): the first amount, from index i
\* down, that balance has reached; 0 is None
RECURSIVE current_threshold(_, _)
current_threshold(balance, i) ==
    IF i = 0 THEN 0
    ELSE IF balance >= 100 * THRESHOLDS[i] THEN THRESHOLDS[i]
    ELSE current_threshold(balance, i - 1)

\* (mutant) an alert is repeated at every check
should_send_alert_always(last_alert, now) == TRUE

\* last_alert is None, or alert_repeat_interval has passed since
should_send_alert(last_alert, now) ==
    \/ last_alert = -1
    \/ now - last_alert >= alert_repeat_interval

\* the body of the loop of _check_all_balances for one registry entry.
\* _send_alert catches and logs the exception of every send that fails
\* (failMode "send": every bot.send_message raises) and returns.
CheckOne(m, alias, wr) ==
    LET balance == parse_balance_amount(wr.last_balance)
        th == current_threshold(balance, Len(THRESHOLDS))
    IN  IF ~is_alive(wr) \/ wr.last_balance = <<>> \/ balance = -1
        THEN [m EXCEPT !.sel[alias] = -1]
        ELSE IF th = 0
        THEN IF m.triggered_thresholds[alias] # {} \/ m.last_alert_time[alias] # -1
             THEN [m EXCEPT !.sel[alias] = 0,
                            !.triggered_thresholds[alias] = {},
                            !.last_alert_time[alias] = -1,
                            !.alerted_at[alias] = -1]
             ELSE [m EXCEPT !.sel[alias] = 0]
        ELSE IF should_send_alert(m.last_alert_time[alias], m.now)
        THEN [m EXCEPT !.sel[alias] = th,
                       !.last_alert_time[alias] = m.now,
                       !.triggered_thresholds[alias] =
                            m.triggered_thresholds[alias] \cup {th},
                       !.alerted_at[alias] = m.now,
                       !.n_alerts[alias] = m.n_alerts[alias] + 1,
                       !.n_delivered[alias] = m.n_delivered[alias] +
                            (IF failMode = "send" THEN 0 ELSE 1)]
        ELSE [m EXCEPT !.sel[alias] = th]

\* for alias, worker in list(workers_registry.items()), entries i..
RECURSIVE _check_all_balances(_, _, _)
_check_all_balances(m, reg, i) ==
    IF i > Len(reg) THEN m
    ELSE _check_all_balances(CheckOne(m, reg[i].alias, workers[reg[i].wid]), reg, i + 1)

OnlyMonitor == UNCHANGED <<msgr, csv, creds_by_alias, registry, workers, nworkers, handler,
                           last, failMode>>

\* _monitor_loop: one check, then asyncio.sleep(check_interval)
_monitor_loop ==
    /\ monitor.now = monitor.next_check
    /\ monitor' = [_check_all_balances(monitor, registry, 1)
                     EXCEPT !.next_check = monitor.now + check_interval]
    /\ OnlyMonitor

\* await asyncio.sleep(self.check_interval) returns: the clock has moved on
\* to the time of the next check
time_passes ==
    /\ monitor.now < monitor.next_check
    /\ monitor.next_check <= MaxTime
    /\ monitor' = [monitor EXCEPT !.now = monitor.next_check]
    /\ OnlyMonitor

\* /reset_alerts <alias>
reset_alerts_for_alias(alias) ==
    /\ monitor.triggered_thresholds[alias] # {}
    /\ monitor' = [monitor EXCEPT !.triggered_thresholds[alias] = {},
                                  !.last_alert_time[alias] = -1,
                                  !.alerted_at[alias] = -1]
    /\ OnlyMonitor

\* a worker reads its balance off the portal:  self.last_balance = text
set_last_balance(w, text) ==
    LET wr == workers[w]
    IN
    /\ is_alive(wr)
    /\ Len(wr.bal_hist) < MaxChanges
    /\ text # wr.last_balance
    /\ workers' = [workers EXCEPT ![w].last_balance = text,
                      ![w].bal_hist = Append(wr.bal_hist,
                                             [at |-> monitor.now, text |-> text])]
    /\ OnlyWorkers

\* ------------------------------------------------------- specification 5
\* two started workers and the monitor about to make its first check; the
\* second worker has read its balance, the first will read and change its
InitMonitor ==
    \E t \in {<<"5","0","0","0","0">>} :
        /\ creds_by_alias = load_creds(RowsFor(WorkerAliases))
        /\ registry = <<[alias |-> "a_tmb", wid |-> 1], [alias |-> "b_iobcorp", wid |-> 2]>>
        /\ workers = [w \in WorkerIds |->
                        CASE w = 1 -> NewWorker("a_tmb", "TMB")
                          [] w = 2 -> [NewWorker("b_iobcorp", "IOB") EXCEPT !.last_balance = t]
                          [] OTHER -> NoWorker]
        /\ nworkers = 2
        /\ handler = Idle
        /\ last = Reply("start", "b_iobcorp", "started", 2, {})
        /\ failMode = "none"
        /\ monitor = NoMonitor
        /\ msgr = NoMessenger
        /\ csv = <<>>

NextMonitor ==
    \/ _monitor_loop
    \/ time_passes
    \/ \E a \in MonitorAliases : reset_alerts_for_alias(a)
    \/ \E t \in BalanceTexts : set_last_balance(1, t)
    \/ RunBodyEnds(2)
    \/ RunFinally(2)

SpecMonitor == InitMonitor /\ [][NextMonitor]_vars

\* ------------------------------------------------------- specification 6
\* the monitor with /reset_alerts all, and with a chat service that may
\* refuse every message
\* /reset_alerts all:  balance_monitor.triggered_thresholds.clear()
reset_alerts_all ==
    /\ monitor' = [monitor EXCEPT
                      !.triggered_thresholds = [a \in MonitorAliases |-> {}]]
    /\ monitor' # monitor
    /\ OnlyMonitor

InitAlerts ==
    \E fm \in {"none", "send"} :
        /\ creds_by_alias = load_creds(RowsFor(WorkerAliases))
        /\ registry = <<[alias |-> "a_tmb", wid |-> 1], [alias |-> "b_iobcorp", wid |-> 2]>>
        /\ workers = [w \in WorkerIds |->
                        CASE w = 1 -> NewWorker("a_tmb", "TMB")
                          [] w = 2 -> [NewWorker("b_iobcorp", "IOB")
                                         EXCEPT !.last_balance = <<"5","0","0","0","0">>]
                          [] OTHER -> NoWorker]
        /\ nworkers = 2
        /\ handler = Idle
        /\ last = Reply("start", "b_iobcorp", "started", 2, {})
        /\ failMode = fm
        /\ monitor = NoMonitor
        /\ msgr = NoMessenger
        /\ csv = <<>>

NextAlerts ==
    \/ NextMonitor
    \/ reset_alerts_all

SpecAlerts == InitAlerts /\ [][NextAlerts]_vars

\* ===================================================== claims, registry
AliveThreads(a) == {w \in WorkerIds : workers[w].alias = a /\ is_alive(workers[w])}

\* C1 (as claimed): at every instant at most one worker thread per alias is
\* alive, also after a /stop whose join timed out is followed by /run.
C1_OneLiveThreadPerAlias ==
    \A a \in CmdAliases : Cardinality(AliveThreads(a)) <= 1

\* C2 (as claimed): after StopWorker(a) has returned the registry has no
\* entry for a, whatever state a's worker was in.
C2_StopLeavesNoEntry ==
    last.op = "stop" => RegGet(registry, last.alias) = 0

\* C3: after StopAll has returned the registry is empty and every worker
\* that was alive when it began has its stop flag set and its browser quit.
C3_StopAllEmptiesRegistry ==
    last.op = "stopall" =>
        /\ registry = <<>>
        /\ \A w \in last.began : workers[w].stop_evt /\ workers[w].quit

\* StopAll returned although a worker it stopped outlived the join deadline
C3_Witness ==
    /\ last.op = "stopall"
    /\ Cardinality(last.began) >= 2
    /\ \E w \in last.began : is_alive(workers[w])
    /\ \E w \in last.began : ~is_alive(workers[w])

\* the adapter each alias of the model is expected to get
ExpectedAdapter ==
    ("a_tmb" :> "TMB") @@ ("b_iobcorp" :> "IOB") @@ ("cnrb" :> "CANARA") @@
    ("d_xyz" :> "None") @@ ("nocred" :> "None")

HasLiveWorker(a) ==
    RegGet(registry, a) # 0 /\ is_alive(workers[RegGet(registry, a)])

StartRefused(a) ==
    \/ a \notin CredAliases
    \/ ExpectedAdapter[a] = "None"
    \/ HasLiveWorker(a)

StartReturned(a) == last' # last /\ last'.op = "start" /\ last'.alias = a

NothingStarted == UNCHANGED <<registry, workers, nworkers>>

OneWorkerStarted(a) ==
    /\ nworkers' = nworkers + 1
    /\ workers' = [workers EXCEPT ![nworkers'] = NewWorker(a, ExpectedAdapter[a])]
    /\ is_alive(workers'[nworkers'])
    /\ RegGet(registry', a) = nworkers'
    /\ \A b \in CmdAliases \ {a} : RegGet(registry', b) = RegGet(registry, b)
    /\ Len(registry') = Len(RegSet(registry, a, 0))

\* C4 (amended): StartWorker(alias) is refused, with nothing created and the
\* registry and every worker unchanged, when alias has no credentials, when
\* its label resolves to no adapter, when the registry holds an alive worker
\* for it, or when constructing the worker raises; in every other case
\* exactly one new worker is started and registered under alias.
C4_StartRefusedOrStarted ==
    [][\A a \in CmdAliases : StartReturned(a) =>
          IF StartRefused(a)
          THEN /\ last'.result \in {"unknown", "unsupported", "already"}
               /\ NothingStarted
          ELSE \/ last'.result = "failed" /\ NothingStarted
               \/ last'.result = "started" /\ OneWorkerStarted(a)]_vars

\* C4 (as claimed): the three refusals are the only ones
C4_AsClaimed ==
    [][\A a \in CmdAliases : StartReturned(a) =>
          IF StartRefused(a)
          THEN /\ last'.result \in {"unknown", "unsupported", "already"}
               /\ NothingStarted
          ELSE last'.result = "started" /\ OneWorkerStarted(a)]_vars

\* a start refused because the alias is running, and one that replaced the
\* registry entry of a worker that had ended
C4_Witness ==
    /\ last.op = "start" /\ last.result = "started" /\ last.alias = "cnrb"
    /\ last.wid > 1
    /\ workers[1].alias = "cnrb" /\ ~is_alive(workers[1])

\* ======================================================= claims, workers
\* C5: a worker whose run() has ended, by whatever path and in whatever
\* adapter, has its stop flag set and quit invoked on its browser.
C5_StoppedHasQuit ==
    \A w \in WorkerIds :
        workers[w].pc = "dead" => workers[w].stop_evt /\ workers[w].quit

\* an IOB worker that gave up by itself, no stop command having been sent
C5_Witness ==
    \E w \in WorkerIds :
        /\ workers[w].pc = "dead" /\ workers[w].bank = "IOB"
        /\ workers[w].retry_count > max_outer_retries
        /\ last.op = "start" /\ handler = Idle

\* C6: once a worker's stop flag is set its thread eventually ends, in every
\* adapter and from every state (retry sleep, steady sleep, waiting for an
\* OTP or a CAPTCHA, failure recovery).
C6_StopLeadsToStopped ==
    \A w \in WorkerIds : workers[w].stop_evt ~> workers[w].pc = "dead"

\* a Canara worker that was stopped while it waited for a code, and ended
C6_Witness ==
    \E w \in WorkerIds :
        /\ workers[w].pc = "dead" /\ workers[w].bank = "CANARA"
        /\ workers[w].ev = <<"login", "stop_in_wait">>

\* C7: the retry wrapper calls the operation until its first success and at
\* most 3 times, starts no attempt once the stop flag is set, and after the
\* 3rd failed attempt, or a failed attempt with the stop flag set, raises to
\* its caller; short of that it sleeps and tries again.
C7_RetryWrapper ==
    [][\A w \in WorkerIds :
        LET a == workers[w]
            b == workers'[w]
        IN  /\ b.calls > a.calls =>
                  /\ a.pc = "retry_head" /\ b.pc = "call"
                  /\ ~a.stop_evt
                  /\ a.rw = "running" /\ a.calls = a.attempt
                  /\ b.calls = a.calls + 1 /\ b.calls <= max_retries_default
            /\ (a.pc = "retry_failed" /\ b.pc # a.pc) =>
                  IF a.attempt >= max_retries_default \/ a.stop_evt
                  THEN b.rw = "raised" /\ b.pc = AfterRaise(a).pc
                  ELSE IF a.attempt >= a.max_retries
                       THEN b.rw = "raised"
                       ELSE b.rw = "running" /\ b.pc = "retry_sleep"
            /\ (a.rw = "running" /\ a.pc \in {"call", "call_rest"}
                  /\ b.pc \notin {"call", "call_rest", "retry_failed",
                                  "captcha_wait", "otp_wait"}) =>
                  /\ b.ev = <<a.op, "ok">>
                  /\ b.rw = "ok" \/ (b.rw = "running" /\ b.calls = 0 /\ b.op # a.op)
      ]_vars

\* the wrapper raised after three failed calls, the stop flag clear
C7_Witness ==
    \E w \in WorkerIds :
        /\ workers[w].rw = "raised" /\ workers[w].calls = 3
        /\ ~workers[w].stop_evt

CounterBanks == {"IOB", "IDBI", "IDFC"}

LoginReturned(a, b) ==
    /\ a.op = "login" /\ a.pc \in {"call", "call_rest", "otp_wait"}
    /\ b.pc = "steady_head" \/ b.op = "nav"

C9_FailingWorkerStops ==
    \A w \in WorkerIds :
        (workers[w].pc = "run" /\ failMode # "none")
            ~> workers[w].pc \in {"dead", "captcha_wait", "otp_wait"}

C11_FailedCycleRecovers ==
    [][\A w \in WorkerIds :
        LET a == workers[w]
            b == workers'[w]
        IN  (/\ a.op \in {"nav", "fetch"}
             /\ ~a.stop_evt /\ ~b.stop_evt
             /\ a.retry_count < max_outer_retries
             /\ b.pc # a.pc
             /\ a.pc = "except" \/ (a.pc = "retry_failed" /\ b.rw = "raised"))
            => b.pc \notin {"finally", "dead"}
      ]_vars

\* C12 (as claimed): when the tab reset got no new tab (no new window
\* handle, or no window at all) the worker goes to its end and does not go
\* on to log in in the old tabs.
C12_NoNewTabStops ==
    [][\A w \in WorkerIds :
        LET a == workers[w]
            b == workers'[w]
        IN  (a.pc = "outer_head" /\ a.cyc \in {"nowin", "nonew"} /\ b.pc # a.pc)
            => b.pc = "finally"
      ]_vars

\* C13: for every adapter, a statement file whose upload keeps failing is
\* given up (the failure leaves the step) only after exactly 5 Upload calls
\* with a 2 s pause between consecutive calls, that is 4 pauses.
C13_FiveUploadsWithPauses ==
    \A w \in WorkerIds :
        (workers[w].pc = "fetch_raised" /\ workers[w].uploads > 0)
            => (workers[w].uploads = 5 /\ workers[w].pauses = 4)

\* C14: every upload that succeeds stamps last_upload_at with the current
\* time and sends exactly one UPLOAD_OK event.
C14_UploadOkRecorded ==
    [][\A w \in WorkerIds :
        LET a == workers[w]  b == workers'[w]
        IN  (a.pc = "upload" /\ b.pc = "fetch_done")
            => (/\ b.last_upload_at = b.cycle
                /\ b.n_upload_ok = a.n_upload_ok + 1)
      ]_vars

\* C15: the file handed to the upload is the one downloaded in the current
\* cycle, never a file that was in the directory before the download.
C15_UploadsThisCyclesFile ==
    \A w \in WorkerIds :
        workers[w].pc \in {"upload", "upload_pause", "fetch_done"}
            => workers[w].file = workers[w].cycle

\* C16: when a login fails on a wrong CAPTCHA and the next login succeeds,
\* the worker has reported the ticket bad, has reset its tabs, is in Steady,
\* and exactly one ERROR event has been sent for the episode.
C16_WrongCaptchaEpisode ==
    [][\A w \in WorkerIds :
        LET a == workers[w]  b == workers'[w]
        IN  (a.pc = "login_confirm" /\ b.pc = "steady" /\ a.wrongs = 1)
            => (/\ a.bad = 1
                /\ a.resets >= 1
                /\ b.n_error = 1)
      ]_vars

\* C17: every step of a worker from logging in to Steady has sent an event
\* of kind START, and every step of a worker to Stopped has sent an event
\* of kind STOP.
C17_StartAndStopEvents ==
    [][\A w \in WorkerIds :
        LET a == workers[w]  b == workers'[w]
        IN  /\ (a.pc = "login_confirm" /\ b.pc = "steady") => "START" \in b.kinds
            /\ (a.pc = "finally" /\ b.pc = "dead") => "STOP" \in b.kinds
      ]_vars

\* the registry entries a check of the monitor works on: alive workers whose
\* last_balance parses to a number
Parsed(i) ==
    /\ is_alive(workers[registry[i].wid])
    /\ parse_balance_amount(workers[registry[i].wid].last_balance) # -1

\* the ladder amounts that balance b (in hundredths) has reached
Reached(b) == {THRESHOLDS[k] : k \in {j \in 1..Len(THRESHOLDS) : b >= 100 * THRESHOLDS[j]}}

\* a step that is one check of the monitor
IsCheck == monitor'.next_check # monitor.next_check

\* C18: at each check, for every alive worker whose last_balance parses to
\* b, the threshold selected is the highest ladder amount A with b >= A
\* (70 000 for 72 500); when b is below every ladder amount none is selected
\* and the alias has neither a last alert time nor triggered amounts after.
C18_HighestThresholdSelected ==
    [][IsCheck =>
        \A i \in 1..Len(registry) :
            LET a == registry[i].alias
                b == parse_balance_amount(workers[registry[i].wid].last_balance)
            IN  Parsed(i) =>
                  /\ Reached(b) # {} =>
                        /\ monitor'.sel[a] \in Reached(b)
                        /\ \A x \in Reached(b) : x <= monitor'.sel[a]
                  /\ Reached(b) = {} =>
                        /\ monitor'.sel[a] = 0
                        /\ monitor'.last_alert_time[a] = -1
                        /\ monitor'.triggered_thresholds[a] = {}
                  /\ b = 7250000 => monitor'.sel[a] = 70000
      ]_vars

C18_Witness ==
    /\ workers[1].last_balance = <<"7","2",",","5","0","0",".","0","0">>
    /\ monitor.sel["a_tmb"] = 70000
    /\ monitor.n_alerts["a_tmb"] = 1

\* C19: for an alive worker whose balance is at or above the lowest ladder
\* amount, a check sends an alert if and only if the alias has no last alert
\* time or at least 300 s have passed since it; and an alert that follows
\* another of the same alias with no clear or reset in between comes at
\* least 300 s after it.
C19_AlertIffDue ==
    [][IsCheck =>
        \A i \in 1..Len(registry) :
            LET a == registry[i].alias
                b == parse_balance_amount(workers[registry[i].wid].last_balance)
                sent == monitor'.n_alerts[a] - monitor.n_alerts[a]
            IN  /\ sent \in {0, 1}
                /\ (Parsed(i) /\ b >= 100 * THRESHOLDS[1]) =>
                      (sent = 1 <=> (\/ monitor.last_alert_time[a] = -1
                                     \/ monitor.now - monitor.last_alert_time[a] >= 300))
                /\ (sent = 1 /\ monitor.alerted_at[a] # -1) =>
                      monitor.now - monitor.alerted_at[a] >= 300
      ]_vars

C19_Witness ==
    /\ monitor.n_alerts["a_tmb"] = 2
    /\ monitor.alerted_at["a_tmb"] = 540
    /\ Len(workers[1].bal_hist) = 1

\* C20: with checks 180 s apart (at 180, 360, 540) and a repeat interval of
\* 300 s, a worker whose balance becomes 72 500 at t = 0, after the check
\* made then, and stays there has had two alerts once the check at 360 is
\* over (the first at 180, the repeat at 300); and with the balance down to
\* 45 000 at t = 360 the check at 540 leaves the alias cleared.
C20_RepeatAt300 ==
    LET h == workers[1].bal_hist
        up == [at |-> 0, text |-> <<"7","2",",","5","0","0",".","0","0">>]
        down == [at |-> 360,
                 text |-> <<"I","N","R"," ","4","5",",","0","0","0",".","0","0">>]
    IN  (/\ h \in {<<up>>, <<up, down>>}
         /\ monitor.next_check > 360)
            => /\ monitor.n_alerts["a_tmb"] >= 2
               /\ (h = <<up, down>> /\ monitor.next_check > 540)
                      => monitor.last_alert_time["a_tmb"] = -1

\* C21: for every alias, triggered_thresholds holds only ladder amounts, and
\* with an amount it holds every lower ladder amount too.
C21_TriggeredDownwardClosed ==
    LET ladder == {THRESHOLDS[k] : k \in 1..Len(THRESHOLDS)}
    IN  \A a \in MonitorAliases :
            /\ monitor.triggered_thresholds[a] \subseteq ladder
            /\ \A x \in monitor.triggered_thresholds[a] :
                  \A y \in ladder : y < x => y \in monitor.triggered_thresholds[a]

\* C22: when an alive worker's last_balance parses below every ladder amount
\* at a check, the alias has no last alert time and no triggered amounts
\* after that check; so it has none after the second of two consecutive
\* checks that find the balance below the ladder.
C22_BelowLadderTwiceClears ==
    [][IsCheck =>
        \A i \in 1..Len(registry) :
            LET a == registry[i].alias
                b == parse_balance_amount(workers[registry[i].wid].last_balance)
            IN  (Parsed(i) /\ Reached(b) = {}) =>
                    /\ monitor'.last_alert_time[a] = -1
                    /\ monitor'.triggered_thresholds[a] = {}
      ]_vars

C22_Witness ==
    /\ workers[1].bal_hist =
          << [at |-> 0, text |-> <<"7","2",",","5","0","0",".","0","0">>],
             [at |-> 0,
              text |-> <<"I","N","R"," ","4","5",",","0","0","0",".","0","0">>] >>
    /\ monitor.n_alerts["a_tmb"] = 1
    /\ monitor.next_check > 360
    /\ monitor.sel["a_tmb"] = 0
    /\ monitor.last_alert_time["a_tmb"] = -1
    /\ monitor.triggered_thresholds["a_tmb"] = {}

\* C23: a reset (of one alias or of all) that empties an alias's triggered
\* amounts leaves the alias without a last alert time as well, so that the
\* next check that finds a threshold reached alerts at once.
C23_ResetEmptiesAlertState ==
    [][\A a \in MonitorAliases :
          (/\ ~IsCheck
           /\ monitor.triggered_thresholds[a] # {}
           /\ monitor'.triggered_thresholds[a] = {})
            => monitor'.last_alert_time[a] = -1
      ]_vars

\* C24: when a check calls _send_alert for an alias and the send to every
\* alert group raises, the alias's last alert time and triggered amounts are
\* as before the check.
C24_FailedSendNotRecorded ==
    [][IsCheck =>
        \A a \in MonitorAliases :
            (/\ monitor'.n_alerts[a] > monitor.n_alerts[a]
             /\ monitor'.n_delivered[a] = monitor.n_delivered[a])
              => /\ monitor'.last_alert_time[a] = monitor.last_alert_time[a]
                 /\ monitor'.triggered_thresholds[a] = monitor.triggered_thresholds[a]
      ]_vars

\* ------------------------------------------------- Messenger (messaging.py)
_max_consecutive_errors == 5

CriticalKinds == {"ERROR", "START", "STOP", "CAPTCHA", "OTP", "UPLOAD_OK"}

\* run_coroutine_threadsafe(self._send_..._with_retry(...), self.loop)
StartSend(m, flush) == [m EXCEPT !.sending[<<0, flush>>] = @ + 1]

\* the sends in flight
InFlight(m) ==
    LET RECURSIVE Sum(_)
        Sum(S) == IF S = {} THEN 0
                  ELSE LET k == CHOOSE x \in S : TRUE IN m.sending[k] + Sum(S \ {k})
    IN  Sum(SendStates)

\* a handle that is not cancelled counts as "already scheduled", whether or
\* not it has fired: the attribute is never set back to None
_schedule_flush(m) ==
    IF m._closed THEN m
    ELSE IF m._flush_timer # "None" /\ m._flush_timer # "cancelled" THEN m
    ELSE [m EXCEPT !._flush_timer = "pending"]

\* the buffer becomes one "Summary (last 1 min)" message and is cleared
\* before the send is scheduled
_flush_now_threadsafe(m) ==
    IF m._buf = <<>> THEN m
    ELSE StartSend([m EXCEPT !._buf = <<>>], TRUE)

\* (variant) a send that goes through leaves the counter alone
handle_result_keeps(m, flush, ok) ==
    IF ok THEN m
    ELSE [m EXCEPT !._consecutive_errors = @ + 1]

\* the done-callbacks of send_event, send_photo and _flush_now_threadsafe
handle_result(m, flush, ok) ==
    IF ok THEN [m EXCEPT !._consecutive_errors = 0]
    ELSE [m EXCEPT !._consecutive_errors = @ + 1,
                   !.warned = @ \/ (flush /\ m._consecutive_errors + 1
                                               >= _max_consecutive_errors)]

OnlyMessenger == UNCHANGED <<creds_by_alias, registry, workers, nworkers, handler,
                             last, failMode, monitor, csv>>

set_debug(on) ==
    /\ msgr.debug # on
    /\ msgr' = [msgr EXCEPT !.debug = on]
    /\ OnlyMessenger

send_event(kind) ==
    /\ msgr.handed < MaxMsgs
    /\ LET m == [msgr EXCEPT !.handed = @ + 1]
       IN  msgr' =
             IF msgr._closed THEN m
             ELSE IF msgr.debug \/ kind \in CriticalKinds
             THEN StartSend(m, FALSE)
             ELSE _schedule_flush([m EXCEPT !._buf = Append(@, kind)])
    /\ OnlyMessenger

send_photo(caption, kind) ==
    /\ msgr.handed < MaxMsgs
    /\ LET m == [msgr EXCEPT !.handed = @ + 1]
           is_critical == kind = "ERROR" \/ Contains(caption, <<"captcha">>)
       IN  msgr' =
             IF msgr._closed THEN m
             ELSE IF msgr.debug \/ is_critical
             THEN StartSend(m, FALSE)
             ELSE m
    /\ OnlyMessenger

\* the loop runs the call_later callback, 60 s after it was scheduled
flush_timer_fires ==
    /\ msgr._flush_timer = "pending"
    /\ msgr' = _flush_now_threadsafe([msgr EXCEPT !._flush_timer = "fired"])
    /\ OnlyMessenger

\* one pass of the retry loop of a send in flight, and the done-callback
\* when the coroutine ends; `ok` is whether Telegram took the message
_send_message_with_retry(k, ok) ==
    /\ msgr.sending[k] > 0
    /\ LET attempt == k[1]
           flush == k[2]
           m == [msgr EXCEPT !.sending[k] = @ - 1,
                             !.most_attempts = IF attempt + 1 > @ THEN attempt + 1 ELSE @]
       IN  msgr' =
             IF ok
             THEN handle_result([m EXCEPT !.fails_since_ok = 0], flush, TRUE)
             ELSE IF attempt < send_max_retries - 1
             THEN [m EXCEPT !.sending[<<attempt + 1, flush>>] = @ + 1]
             ELSE handle_result([m EXCEPT !.fails_since_ok = @ + 1], flush, FALSE)
    /\ OnlyMessenger

aclose ==
    /\ ~msgr._closed
    /\ msgr' = _flush_now_threadsafe(
                 [msgr EXCEPT !._closed = TRUE,
                              !._flush_timer = IF @ = "None" THEN "None" ELSE "cancelled"])
    /\ OnlyMessenger

\* ---- specification 7: the Messenger
InitMessenger ==
    \E dbg \in BOOLEAN :
        /\ creds_by_alias = load_creds(RowsFor(CredAliases))
        /\ registry = <<>>
        /\ workers = [w \in WorkerIds |-> NoWorker]
        /\ nworkers = 0
        /\ handler = Idle
        /\ last = Reply("none", "", "none", 0, {})
        /\ failMode = "none"
        /\ monitor = NoMonitor
        /\ msgr = [NoMessenger EXCEPT !.debug = dbg]
        /\ csv = <<>>

NextMessenger ==
    \/ \E on \in BOOLEAN : set_debug(on)
    \/ \E kind \in {"INFO", "ERROR"} : send_event(kind)
    \/ \E caption \in {<<>>, <<"captcha">>, <<"screenshot">>}, kind \in {"INFO", "ERROR"} :
            send_photo(caption, kind)
    \/ flush_timer_fires
    \/ \E k \in SendStates, ok \in BOOLEAN : _send_message_with_retry(k, ok)
    \/ aclose

SpecMessenger == InitMessenger /\ [][NextMessenger]_vars

\* C25: with debug off, every non-critical event accepted by send_event is
\* delivered in one aggregated flush about 60 s after its batch began, for
\* every batch and after any number of earlier flushes.  Only the flush
\* timer and aclose empty the buffer, so while the Messenger is open a
\* buffered event must always have a flush pending.
C25_EveryBatchHasItsFlush ==
    (~msgr._closed /\ msgr._buf # <<>>) => msgr._flush_timer = "pending"

\* C26: no message is attempted more than 3 times; the consecutive-failure
\* counter is the number of messages that failed all their attempts since
\* the last message that went through (so a success puts it back to 0); and
\* a message that fails, at 5 and above as below, is dropped: the step that
\* counts it takes it out of flight and puts nothing back in the buffer.
C26_RetriesAndFailureCounter ==
    /\ [](/\ msgr.most_attempts <= 3
          /\ msgr._consecutive_errors = msgr.fails_since_ok)
    /\ [][msgr'._consecutive_errors > msgr._consecutive_errors =>
            /\ msgr'._consecutive_errors = msgr._consecutive_errors + 1
            /\ msgr'._buf = msgr._buf
            /\ InFlight(msgr') = InFlight(msgr) - 1]_vars

\* the counter has passed 5: a further message has failed after the fifth
\* in a row, every send has ended, and some send used all three attempts
C26_Witness ==
    /\ msgr._consecutive_errors > 5
    /\ InFlight(msgr) = 0
    /\ msgr.most_attempts = 3

\* ------------------- the credentials file under /add and /edit (aliases.py)
\* the /add and /edit commands followed that rewrite the file
MaxWrites == 2

EditFields == {"login_id", "user_id", "password", "account_number"}

\* the files the bot is started on: every row complete; or the TMB alias in
\* the 5-column form and a row whose password is missing
InitStores == {
    <<[alias |-> "a_tmb", login_id |-> <<>>, user_id |-> <<>>, username |-> <<"1">>,
       password |-> <<"p">>, account_number |-> <<"1">>],
      [alias |-> "b_iobcorp", login_id |-> <<"1">>, user_id |-> <<"2">>, username |-> <<>>,
       password |-> <<"p">>, account_number |-> <<" ", "2">>]>>,
    <<[alias |-> "a_tmb", login_id |-> <<"1">>, user_id |-> <<"2">>, username |-> <<>>,
       password |-> <<"p">>, account_number |-> <<"1">>],
      [alias |-> "e_kgb", login_id |-> <<>>, user_id |-> <<>>, username |-> <<"3">>,
       password |-> <<>>, account_number |-> <<"2">>]>> }

\* what the operator types after /add's alias
AddFields == {<<<<"5">>, <<"q">>, <<" ", "2">>>>,
              <<<<"5">>, <<"6">>, <<"q">>, <<" ", "2">>>>,
              <<<<"5">>, <<"6">>, <<"q">>, <<"9">>>>,
              <<<<"5">>, <<>>, <<"q">>, <<"9">>>>,
              <<<<"5">>, <<"9">>>>}

\* (history) the last command, its reply, and the writes made so far
StoreReply(op, alias, field, value, result, named) ==
    [op |-> op, alias |-> alias, field |-> field, value |-> value,
     result |-> result, named |-> named,
     writes |-> IF op = "none" THEN 0
                ELSE IF result = "ok" THEN last.writes + 1 ELSE last.writes]

\* the aliases of `creds` holding the account number acct, in dict order
\* (the order of the file)
Holders(creds, rows, acct) ==
    SelectSeq([i \in 1..Len(rows) |-> rows[i].alias],
              LAMBDA a : /\ a \in DOMAIN creds
                         /\ StrStrip(creds[a].account_number) = StrStrip(acct))

\* /add alias,f1,f2,...: the whole handler
add_alias(alias, fields) ==
    LET vals == SelectSeq([i \in 1..Len(fields) |-> StrStrip(fields[i])],
                          LAMBDA v : v # <<>>)
        n == Len(vals) + 1
        is_five_field_bank ==
            Contains(StrLower(AliasText[alias]), <<"i","o","b","c","o","r","p">>)
        row == IF n = 4
               THEN [alias |-> alias, login_id |-> <<>>, user_id |-> <<>>,
                     username |-> vals[1], password |-> vals[2],
                     account_number |-> vals[3]]
               ELSE [alias |-> alias, login_id |-> vals[1], user_id |-> vals[2],
                     username |-> <<>>, password |-> vals[3],
                     account_number |-> vals[4]]
        held == Holders(creds_by_alias, csv, row.account_number)
        said(result, named) ==
            StoreReply("add", alias, "account_number", fields, result, named)
    IN  /\ last.writes < MaxWrites
        /\ IF (is_five_field_bank /\ n # 5) \/ (~is_five_field_bank /\ n \notin {4, 5})
           THEN /\ last' = said("format", "")
                /\ UNCHANGED <<csv, creds_by_alias>>
           ELSE IF held # <<>>
           THEN /\ last' = said("duplicate", held[1])
                /\ UNCHANGED <<csv, creds_by_alias>>
           ELSE IF alias \in DOMAIN creds_by_alias
           THEN /\ last' = said("exists", "")
                /\ UNCHANGED <<csv, creds_by_alias>>
           ELSE /\ csv' = Append(csv, row)
                /\ creds_by_alias' = load_creds(csv')
                /\ last' = said("ok", "")
        /\ UNCHANGED <<registry, workers, nworkers, handler, failMode, monitor, msgr>>

\* (variant) only the first row of the alias is rewritten
edited_rows_first(rows, alias, field_key, new_value) ==
    [i \in 1..Len(rows) |->
        IF rows[i].alias = alias /\ \A j \in 1..(i - 1) : rows[j].alias # alias
        THEN [rows[i] EXCEPT ![field_key] = new_value]
        ELSE rows[i]]

\* update_credentials_csv, the read loop: row[field_key] = new_value in
\* every row of the alias
edited_rows(rows, alias, field_key, new_value) ==
    [i \in 1..Len(rows) |->
        IF rows[i].alias = alias
        THEN [rows[i] EXCEPT ![field_key] = new_value]
        ELSE rows[i]]

\* the /edit flow up to its reply: edit_alias refuses an alias that is not
\* in the map; handle_alias_text calls update_credentials_csv with the text
handle_alias_text(alias, field_key, text) ==
    LET new_value == StrStrip(text)
        used == {i \in 1..Len(csv) :
                    /\ field_key = "account_number"
                    /\ StrStrip(csv[i].account_number) = new_value
                    /\ csv[i].alias # alias}
        used_by == csv[CHOOSE i \in used : \A j \in used : j <= i].alias
        wid == RegGet(registry, alias)
        said(result, named) == StoreReply("edit", alias, field_key, text, result, named)
    IN  /\ last.writes < MaxWrites
        /\ alias \in DOMAIN creds_by_alias
        /\ IF ~\E i \in 1..Len(csv) : csv[i].alias = alias
           THEN /\ last' = said("unknown", "")
                /\ UNCHANGED <<csv, creds_by_alias, workers>>
           ELSE IF used # {}
           THEN /\ last' = said("duplicate", used_by)
                /\ UNCHANGED <<csv, creds_by_alias, workers>>
           ELSE /\ csv' = edited_rows(csv, alias, field_key, new_value)
                /\ creds_by_alias' = load_creds(csv')
                /\ workers' = IF wid = 0 THEN workers
                              ELSE [workers EXCEPT ![wid].cred[field_key] = new_value]
                /\ last' = said("ok", "")
        /\ UNCHANGED <<registry, nworkers, handler, failMode, monitor, msgr>>

\* what _login types into the portal's form, by adapter
login_keys(bank, alias, cred) ==
    LET user == IF cred.auth_id # <<>> THEN cred.auth_id ELSE cred.username
    IN  IF bank = "TMB" THEN <<cred.auth_id, cred.password>>
        ELSE IF bank = "IOB"
        THEN IF \/ StrStrip(StrUpper(cred.bank_label))
                     = <<"I","O","B"," ","C","O","R","P","O","R","A","T","E">>
                \/ EndsWith(StrLower(AliasText[alias]),
                            <<"_","i","o","b","c","o","r","p">>)
             THEN <<cred.login_id, cred.user_id, cred.password>>
             ELSE <<user, cred.password>>
        ELSE <<StrStrip(user), cred.password>>

\* the worker logs in again, with its snapshot
_login(w) ==
    /\ is_alive(workers[w])
    /\ workers' = [workers EXCEPT
                     ![w].typed = login_keys(workers[w].bank, workers[w].alias,
                                             workers[w].cred)]
    /\ workers' # workers
    /\ UNCHANGED <<csv, creds_by_alias, registry, nworkers, handler, last, failMode,
                   monitor, msgr>>

\* ---- specification 8: the credentials file
InitStore ==
    \E rows \in InitStores :
      \E a \in DOMAIN load_creds(rows) :
        /\ csv = rows
        /\ creds_by_alias = load_creds(rows)
        /\ registry = <<[alias |-> a, wid |-> 1]>>
        /\ workers = [w \in WorkerIds |->
                        IF w = 1
                        THEN [NewWorker(a, _pick_worker_class(load_creds(rows)[a].bank_label))
                                EXCEPT !.cred = load_creds(rows)[a]]
                        ELSE NoWorker]
        /\ nworkers = 1
        /\ handler = Idle
        /\ last = StoreReply("none", "", "", <<>>, "none", "")
        /\ failMode = "none"
        /\ monitor = NoMonitor
        /\ msgr = NoMessenger

NextStore ==
    \/ \E a \in {"a_tmb", "b_iobcorp", "e_kgb"}, f \in AddFields : add_alias(a, f)
    \/ \E a \in {"a_tmb", "b_iobcorp", "e_kgb"}, k \in EditFields,
          t \in {<<" ", "2">>, <<"9">>} :
            handle_alias_text(a, k, t)
    \/ _login(1)

SpecStore == InitStore /\ [][NextStore]_vars

\* the account number the last command asked for, as typed
AskedAccount(l) == IF l.op = "add" THEN l.value[Len(l.value)] ELSE l.value

\* the rows of the file holding account number acct under another alias
Colliding(rows, alias, acct) ==
    {i \in 1..Len(rows) : /\ rows[i].alias # alias
                          /\ StrStrip(rows[i].account_number) = StrStrip(acct)}

\* C27: a well-formed /add of a new alias, or an /edit of the account number,
\* asking for a number that a row of another alias holds is refused with a reply
\* naming such an alias, and the file, the in-memory map and the workers'
\* credential snapshots stay as they were.
C27_DuplicateAccountRefused ==
    [][(/\ last' # last
        /\ last'.field = "account_number"
        /\ last'.result \notin {"format", "exists"}
        /\ Colliding(csv, last'.alias, AskedAccount(last')) # {})
       => /\ last'.result = "duplicate"
          /\ \E i \in Colliding(csv, last'.alias, AskedAccount(last')) :
                csv[i].alias = last'.named
          /\ csv' = csv
          /\ creds_by_alias' = creds_by_alias
          /\ workers' = workers]_vars

\* C28: starting from a file whose account numbers are all distinct, no
\* sequence of /add and /edit commands leaves two rows of the file with the
\* same account number.
C28_AccountNumbersDistinct ==
    \A i, j \in 1..Len(csv) :
        i # j => StrStrip(csv[i].account_number) # StrStrip(csv[j].account_number)

\* the values /add was given, stripped, blanks dropped
Given(l) ==
    SelectSeq([i \in 1..Len(l.value) |-> StrStrip(l.value[i])], LAMBDA v : v # <<>>)

\* C29: the in-memory map is the file reloaded, after every command; after
\* an accepted /add the reloaded map has the alias with the values given
\* (4 values: username, password, account number; 5 values: login id, user
\* id, password, account number); after an accepted /edit the reloaded entry
\* of the alias has the edited field equal to the value typed, stripped.
C29_ReloadRoundTrip ==
    /\ creds_by_alias = load_creds(csv)
    /\ (last.op = "add" /\ last.result = "ok") =>
          /\ last.alias \in DOMAIN load_creds(csv)
          /\ LET e == load_creds(csv)[last.alias]
                 g == Given(last)
             IN  /\ e.alias = last.alias
                 /\ IF Len(g) = 3
                    THEN <<e.username, e.password, e.account_number>> = g
                         /\ e.login_id = <<>> /\ e.user_id = <<>> /\ e.auth_id = g[1]
                    ELSE <<e.login_id, e.user_id, e.password, e.account_number>> = g
                         /\ e.username = <<>> /\ e.auth_id = g[1]
    /\ (last.op = "edit" /\ last.result = "ok") =>
          /\ last.alias \in DOMAIN load_creds(csv)
          /\ load_creds(csv)[last.alias][last.field] = StrStrip(last.value)

\* an alias with two rows in the file has been edited, after an /add
C29_Witness ==
    /\ last.op = "edit" /\ last.result = "ok" /\ last.writes >= 2
    /\ Cardinality({i \in 1..Len(csv) : csv[i].alias = last.alias}) = 2
    /\ Len(csv) = 3

\* C30: after an accepted /edit of an alias that has a worker, the worker's
\* snapshot holds the value typed for the edited field, and a login the
\* worker then makes types what the credential as now stored gives for its
\* adapter.
C30_LiveWorkerUsesEditedCredential ==
    /\ [](\A w \in WorkerIds :
            (/\ last.op = "edit" /\ last.result = "ok"
             /\ RegGet(registry, last.alias) = w)
            => workers[w].cred[last.field] = StrStrip(last.value))
    /\ [][\A w \in WorkerIds :
            (/\ workers'[w].typed # workers[w].typed
             /\ last.op = "edit" /\ last.result = "ok"
             /\ RegGet(registry, last.alias) = w)
            => workers'[w].typed = login_keys(workers[w].bank, workers[w].alias,
                                              creds_by_alias[workers[w].alias])]_vars

\* C40: when, at a check, an alive worker's balance has reached a ladder
\* amount higher than every amount in the alias's triggered_thresholds, that
\* check sends an alert for the alias, also when fewer than 300 s have passed
\* since its previous alert.
C40_EscalationNotDelayed ==
    [][IsCheck =>
        \A i \in 1..Len(registry) :
            LET a == registry[i].alias
                b == parse_balance_amount(workers[registry[i].wid].last_balance)
            IN  (/\ Parsed(i)
                 /\ \E x \in Reached(b) :
                       \A y \in monitor.triggered_thresholds[a] : y < x)
                => /\ monitor'.n_alerts[a] = monitor.n_alerts[a] + 1
                   /\ \A x \in Reached(b) : x <= monitor'.sel[a]
      ]_vars

\* =====================================================================
\* specification 9: the settings read from the environment (config.py)
\* =====================================================================
MaxEnvLen == 3
min_check_interval == 60

\* int(s) succeeds: blanks around, an optional sign, then digits, with
\* single underscores allowed between digits
int_parses(s) ==
    LET t == StrStrip(s)
        body == IF t # <<>> /\ t[1] \in {"+", "-"} THEN Tail(t) ELSE t
    IN  /\ body # <<>>
        /\ \A i \in 1..Len(body) : IsDigit(body[i]) \/ body[i] = "_"
        /\ IsDigit(body[1]) /\ IsDigit(body[Len(body)])
        /\ \A i \in 1..(Len(body) - 1) : ~(body[i] = "_" /\ body[i + 1] = "_")

\* the value of int(s) where it succeeds
int_value(s) ==
    LET t == StrStrip(s)
        body == IF t[1] \in {"+", "-"} THEN Tail(t) ELSE t
        n == IntOf(DropChars(body, {"_"}))
    IN  IF t[1] = "-" THEN 0 - n ELSE n

\* load_settings, "Parse balance check interval"
balance_check_interval_unclamped(interval_str) ==
    IF interval_str = <<>> THEN check_interval
    ELSE IF ~int_parses(interval_str) THEN check_interval
    ELSE int_value(interval_str)

balance_check_interval(interval_str) ==
    IF interval_str = <<>> THEN check_interval
    ELSE IF ~int_parses(interval_str) THEN check_interval
    ELSE IF int_value(interval_str) < min_check_interval THEN min_check_interval
    ELSE int_value(interval_str)

\* the process starts: load_settings reads the environment
load_settings ==
    /\ last.op = "env"
    /\ last' = [last EXCEPT !.op = "settings",
                            !.check_interval = balance_check_interval(last.interval_str)]
    /\ UNCHANGED <<creds_by_alias, registry, workers, nworkers, handler, failMode,
                   monitor, msgr, csv>>

InitSettings ==
    /\ \E n \in 0..MaxEnvLen : \E s \in [1..n -> {"3", "0", "6", "-", "a", ".", " "}] :
          last = [op |-> "env", interval_str |-> s, check_interval |-> 0]
    /\ creds_by_alias = load_creds(RowsFor(CredAliases))
    /\ registry = <<>>
    /\ workers = [w \in WorkerIds |-> NoWorker]
    /\ nworkers = 0
    /\ handler = Idle
    /\ failMode = "none"
    /\ monitor = NoMonitor
    /\ msgr = NoMessenger
    /\ csv = <<>>

SpecSettings == InitSettings /\ [][load_settings]_vars

\* the setting is the decimal notation of an integer: digits, with or
\* without a minus sign in front
DecimalText(s) ==
    LET body == IF s # <<>> /\ s[1] = "-" THEN Tail(s) ELSE s
    IN  body # <<>> /\ \A i \in 1..Len(body) : IsDigit(body[i])

DecimalValue(s) == IF s[1] = "-" THEN 0 - IntOf(Tail(s)) ELSE IntOf(s)

\* C35: once the settings are loaded, a BALANCE_CHECK_INTERVAL that is the
\* decimal notation of an integer v gives the check interval max(v, 60); an
\* unset one, or one with a character no integer notation has, gives 180.
C35_IntervalClamped ==
    last.op = "settings" =>
        LET s == last.interval_str
        IN  /\ DecimalText(s) =>
                 last.check_interval
                   = IF DecimalValue(s) < 60 THEN 60 ELSE DecimalValue(s)
            /\ (s = <<>> \/ \E i \in 1..Len(s) : s[i] \in {"a", "."}) =>
                 last.check_interval = 180

C35_Witness ==
    /\ last.op = "settings"
    /\ last.interval_str = <<"3", "0">>
    /\ last.check_interval = 60

\* =====================================================================
\* specification 10: the date window of a statement request
\* =====================================================================
\* the hour before which the window starts the day before: `now.hour < 6`
\* in IOB and KGB, `now.hour < 5` in IDBI, IDFC and Canara
cutover_hour(bank) == IF bank \in {"IOB", "KGB"} THEN 6 ELSE 5

\* the window computed from datetime.now(): <<from, to>> as day numbers
date_window(bank, now) ==
    IF now.hour < cutover_hour(bank) THEN <<now.day - 1, now.day>>
    ELSE <<now.day, now.day>>

\* _download_and_upload_statement up to the filling of the two date fields
fill_date_range ==
    /\ last.op = "now"
    /\ last' = [last EXCEPT !.op = "window",
                            !.from_dt = date_window(last.bank, last.now)[1],
                            !.to_dt = date_window(last.bank, last.now)[2]]
    /\ UNCHANGED <<creds_by_alias, registry, workers, nworkers, handler, failMode,
                   monitor, msgr, csv>>

InitWindow ==
    /\ \E b \in {"IOB", "KGB", "IDBI", "IDFC", "CANARA"}, d \in {1, 2},
          h \in 0..23, m \in {0, 59} :
          last = [op |-> "now", bank |-> b,
                  now |-> [day |-> d, hour |-> h, minute |-> m],
                  from_dt |-> 0, to_dt |-> 0]
    /\ creds_by_alias = load_creds(RowsFor(CredAliases))
    /\ registry = <<>>
    /\ workers = [w \in WorkerIds |-> NoWorker]
    /\ nworkers = 0
    /\ handler = Idle
    /\ failMode = "none"
    /\ monitor = NoMonitor
    /\ msgr = NoMessenger
    /\ csv = <<>>

SpecWindow == InitWindow /\ [][fill_date_range]_vars

\* C33: in every adapter, a statement request made at an hour below 5 asks
\* for yesterday to today, and one made at 05:00 or later asks for today to
\* today.
C33_WindowCutsOverAtFive ==
    last.op = "window" =>
        /\ last.to_dt = last.now.day
        /\ last.from_dt = IF last.now.hour < 5 THEN last.now.day - 1 ELSE last.now.day

\* a worker object as its constructor and Thread.start() leave it
FreshWorker(wr) ==
    /\ wr.pc = "run"
    /\ ~wr.stop_evt /\ ~wr.quit
    /\ wr.last_balance = <<>>
    /\ wr.last_upload_at = 0
    /\ wr.otp_code = <<>> /\ wr.captcha_code = <<>>
    /\ wr.retry_count = 0

C39_RegistryHoldsLiveWorkers ==
    \A i \in 1..Len(registry) : is_alive(workers[registry[i].wid])

\* =====================================================================
\* specification 11: the check suspended in the send of an alert
\* =====================================================================
\* _check_all_balances from registry entry i on, up to the next
\* `await self._send_alert(...)` or to the end of the loop; after the loop
\* _monitor_loop sleeps for check_interval
RECURSIVE check_from(_, _, _)
check_from(m, reg, i) ==
    IF i > Len(reg)
    THEN [m EXCEPT !.next_check = m.now + check_interval,
                   !.sending = NoMonitor.sending]
    ELSE LET alias == reg[i].alias
             wr == workers[reg[i].wid]
             balance == parse_balance_amount(wr.last_balance)
             th == current_threshold(balance, Len(THRESHOLDS))
         IN  IF /\ is_alive(wr) /\ wr.last_balance # <<>> /\ balance # -1 /\ th # 0
                /\ should_send_alert(m.last_alert_time[alias], m.now)
             THEN [m EXCEPT !.sel[alias] = th,
                            !.n_alerts[alias] = m.n_alerts[alias] + 1,
                            !.sending = [i |-> i, now |-> m.now,
                                         last_alert |-> m.last_alert_time[alias],
                                         th |-> th]]
             ELSE check_from(CheckOne(m, alias, wr), reg, i + 1)

\* _monitor_loop calls _check_all_balances
check_begins ==
    /\ monitor.sending.i = 0
    /\ monitor.now = monitor.next_check
    /\ monitor' = check_from(monitor, registry, 1)
    /\ OnlyMonitor

\* _send_alert returns: "Update tracking", then the loop goes on
send_alert_returns ==
    LET snd == monitor.sending
        alias == registry[snd.i].alias
    IN  /\ snd.i # 0
        /\ monitor' = check_from(
              [monitor EXCEPT
                  !.last_alert_time[alias] = snd.now,
                  !.triggered_thresholds[alias] =
                       monitor.triggered_thresholds[alias] \cup {snd.th},
                  !.alerted_at[alias] = snd.now,
                  !.n_delivered[alias] = monitor.n_delivered[alias] + 1],
              registry, snd.i + 1)
        /\ OnlyMonitor

InitInFlight ==
    /\ creds_by_alias = load_creds(RowsFor(WorkerAliases))
    /\ registry = <<[alias |-> "a_tmb", wid |-> 1], [alias |-> "b_iobcorp", wid |-> 2]>>
    /\ workers = [w \in WorkerIds |->
                    CASE w = 1 -> NewWorker("a_tmb", "TMB")
                      [] w = 2 -> [NewWorker("b_iobcorp", "IOB")
                                     EXCEPT !.last_balance = <<"5","0","0","0","0">>]
                      [] OTHER -> NoWorker]
    /\ nworkers = 2
    /\ handler = Idle
    /\ last = Reply("start", "b_iobcorp", "started", 2, {})
    /\ failMode = "none"
    /\ monitor = NoMonitor
    /\ msgr = NoMessenger
    /\ csv = <<>>

NextInFlight ==
    \/ check_begins
    \/ send_alert_returns
    \/ time_passes
    \/ \E a \in MonitorAliases : reset_alerts_for_alias(a)
    \/ \E t \in {<<"5","0","0","0","0">>, <<"N","/","A">>} : set_last_balance(1, t)

SpecInFlight == InitInFlight /\ [][NextInFlight]_vars

\* the alias has no alert state: no last alert time, no triggered amount
NoAlertState(m, a) == m.last_alert_time[a] = -1 /\ m.triggered_thresholds[a] = {}

\* C36: an alias's alert state, once empty (as ResetAlerts leaves it), gets
\* an entry only from an alert that was decided on the empty state, that is
\* by a check that read the state after the reset; an alert decided before
\* the reset and still being sent when the reset is processed does not
\* write the state back.
C36_ResetNotUndoneByAlertInFlight ==
    [][\A a \in MonitorAliases :
          (NoAlertState(monitor, a) /\ ~NoAlertState(monitor', a))
          => /\ monitor.sending.i # 0
             /\ registry[monitor.sending.i].alias = a
             /\ monitor.sending.last_alert = -1]_vars

\* =====================================================================
\* specification 12: the tabs of a worker's browser and /status
\* =====================================================================
MaxTabs == 4

\* driver.switch_to.window(h); raises NoSuchWindowException (ok FALSE) when
\* no window has the handle
switch_to_window(t, h) ==
    IF \E i \in 1..Len(t.handles) : t.handles[i] = h
    THEN [ok |-> TRUE, t |-> [t EXCEPT !.current = h]]
    ELSE [ok |-> FALSE, t |-> t]

\* driver.close(): closes the current window; the driver is left on the
\* closed window's handle.  Raises when that window is already gone.
close_window(t) ==
    IF switch_to_window(t, t.current).ok
    THEN [ok |-> TRUE,
          t |-> [t EXCEPT !.handles = SelectSeq(t.handles, LAMBDA h : h # t.current)]]
    ELSE [ok |-> FALSE, t |-> t]

\* window.open('about:blank'), run in the current window
open_window(t) ==
    [t EXCEPT !.handles = Append(t.handles, t.made + 1), !.made = t.made + 1,
              !.new_handle = t.made + 1]

\* IOBWorker._cycle_tabs, one driver command at a time
cycle_tabs_steps(w) ==
    LET wr == workers[w]
        t == wr.tabs
        to(pc, tt) == workers' = [workers EXCEPT ![w].pc = pc, ![w].tabs = tt]
    IN  /\ ~wr.quit
        /\ \/ /\ wr.pc = "portal"      \* 1) open a new blank tab
              /\ t.made < MaxTabs
              /\ switch_to_window(t, t.current).ok
              /\ to("cyc_switch", [open_window(t) EXCEPT !.todo = t.handles])
           \/ /\ wr.pc = "cyc_switch"  \* 3) d.switch_to.window(h), in a try
              /\ LET r == switch_to_window(t, Head(t.todo))
                 IN  IF r.ok THEN to("cyc_close", r.t)
                     ELSE to(IF Len(t.todo) > 1 THEN "cyc_switch" ELSE "cyc_finish",
                             [t EXCEPT !.todo = Tail(t.todo)])
           \/ /\ wr.pc = "cyc_close"   \* 3) d.close(), in the same try
              /\ to(IF Len(t.todo) > 1 THEN "cyc_switch" ELSE "cyc_finish",
                    [close_window(t).t EXCEPT !.todo = Tail(t.todo)])
           \/ /\ wr.pc = "cyc_finish"  \* 4) switch into the fresh tab
              /\ LET r == switch_to_window(t, t.new_handle)
                 IN  IF r.ok THEN to("portal", [r.t EXCEPT !.win = t.new_handle])
                     ELSE to("portal", t)
        /\ OnlyWorkers

\* _download_and_upload_statement, 9) and 10): the upload in a new tab and
\* the return to the portal's tab, one driver command at a time.  An
\* exception in 10) abandons the block (ErrorContext, reraise=False).
upload_tab_steps(w) ==
    LET wr == workers[w]
        t == wr.tabs
        to(pc, tt) == workers' = [workers EXCEPT ![w].pc = pc, ![w].tabs = tt]
    IN  /\ ~wr.quit
        /\ \/ /\ wr.pc = "portal"       \* original_handle; window.open
              /\ t.made < MaxTabs
              /\ switch_to_window(t, t.current).ok
              /\ to("up_switch", [open_window(t) EXCEPT !.original = t.current])
           \/ /\ wr.pc = "up_switch"    \* d.switch_to.window(autobank_handle)
              /\ LET r == switch_to_window(t, t.new_handle)
                 IN  IF r.ok THEN to("upload", r.t) ELSE to("portal", t)
           \/ /\ wr.pc = "upload"       \* AutoBankClient(d).upload(...)
              /\ to("up_return", t)
           \/ /\ wr.pc = "up_return"    \* d.switch_to.window(original_handle)
              /\ LET r == switch_to_window(t, t.original)
                     others == SelectSeq(t.handles, LAMBDA h : h # t.original)
                 IN  IF ~r.ok THEN to("portal", t)
                     ELSE to(IF others = <<>> THEN "up_back" ELSE "up_next",
                             [r.t EXCEPT !.todo = others])
           \/ /\ wr.pc = "up_next"      \* d.switch_to.window(h)
              /\ LET r == switch_to_window(t, Head(t.todo))
                 IN  IF r.ok THEN to("up_close", r.t) ELSE to("portal", t)
           \/ /\ wr.pc = "up_close"     \* d.close()
              /\ LET r == close_window(t)
                 IN  IF ~r.ok THEN to("portal", t)
                     ELSE to(IF Len(t.todo) > 1 THEN "up_next" ELSE "up_back",
                             [r.t EXCEPT !.todo = Tail(t.todo)])
           \/ /\ wr.pc = "up_back"      \* d.switch_to.window(original_handle)
              /\ to("portal", switch_to_window(t, t.original).t)
        /\ OnlyWorkers

\* BaseWorker.screenshot_all_tabs: every handle is switched to in turn, a
\* failing one is skipped; nothing switches back
RECURSIVE screenshot_all_tabs(_, _)
screenshot_all_tabs(t, hs) ==
    IF hs = <<>> THEN t
    ELSE screenshot_all_tabs(switch_to_window(t, Head(hs)).t, Tail(hs))

\* /status <alias>, on the chat I/O loop while the worker's thread runs.
\* The photos it sends are not followed here.
status_cmd(alias) ==
    LET w == RegGet(registry, alias)
    IN  /\ handler.pc = "idle"
        /\ IF w = 0
           THEN /\ last' = Reply("status", alias, "not_running", 0, {})
                /\ UNCHANGED workers
           ELSE IF workers[w].quit
           THEN /\ last' = Reply("status", alias, "failed", w, {})
                /\ UNCHANGED workers
           ELSE /\ last' = Reply("status", alias, "captured", w, {})
                /\ workers' = [workers EXCEPT ![w].tabs =
                        screenshot_all_tabs(workers[w].tabs, workers[w].tabs.handles)]
        /\ last' # last \/ workers' # workers
        /\ UNCHANGED <<msgr, csv, monitor, creds_by_alias, registry, nworkers, handler,
                       failMode>>

InitTabs ==
    /\ creds_by_alias = load_creds(RowsFor(WorkerAliases))
    /\ registry = <<[alias |-> "b_iobcorp", wid |-> 1]>>
    /\ workers = [w \in WorkerIds |->
                    IF w = 1
                    THEN [NewWorker("b_iobcorp", "IOB") EXCEPT
                            !.pc = "portal",
                            !.tabs = [NoWorker.tabs EXCEPT !.handles = <<1>>,
                                         !.current = 1, !.made = 1, !.win = 1]]
                    ELSE NoWorker]
    /\ nworkers = 1
    /\ handler = Idle
    /\ last = Reply("start", "b_iobcorp", "started", 1, {})
    /\ failMode = "none"
    /\ monitor = NoMonitor
    /\ msgr = NoMessenger
    /\ csv = <<>>

SpecTabs ==
    InitTabs /\ [][\/ cycle_tabs_steps(1)
                   \/ upload_tab_steps(1)
                   \/ \E a \in {"b_iobcorp", "a_tmb"} : status_cmd(a)]_vars

\* the worker's next driver command acts on the current window (it is not a
\* switch to a window given by its handle)
NextUsesCurrent(wr) == wr.pc \in {"cyc_close", "upload", "up_close"}

\* C38: a /status that captures the tabs of a worker whose next driver
\* command acts on the current window leaves the current window the one it
\* was before.
C38_StatusKeepsCurrentTab ==
    [][\A w \in WorkerIds :
          (/\ last' # last /\ last'.op = "status" /\ last'.wid = w
           /\ NextUsesCurrent(workers[w]))
          => workers'[w].tabs.current = workers[w].tabs.current]_vars

\* =====================================================================
\* specification 13: codes and edit values sent as chat texts
\* =====================================================================
\* \w of the regular expressions
IsWordChar(c) ==
    \/ IsDigit(c) \/ c = "_"
    \/ \E i \in 1..Len(LowerChars) : c \in {LowerChars[i], UpperChars[i]}

\* otp_or_captcha, the reading of the text: a six-digit word anywhere in it
\* makes it an OTP; otherwise, blanks removed, 4 to 8 letters and digits
\* make it a CAPTCHA answer, upper-cased
read_code(message_text) ==
    LET text == StrStrip(message_text)
        six == {i \in 1..(Len(text) - 5) :
                  /\ \A j \in i..(i + 5) : IsDigit(text[j])
                  /\ i = 1 \/ ~IsWordChar(text[i - 1])
                  /\ i + 5 = Len(text) \/ ~IsWordChar(text[i + 6])}
        m == CHOOSE i \in six : \A j \in six : i <= j
        t == DropChars(text, {" "})
    IN  IF text = <<>> THEN [kind |-> "none", code |-> <<>>]
        ELSE IF six # {} THEN [kind |-> "otp", code |-> SubSeq(text, m, m + 5)]
        ELSE IF /\ Len(t) \in 4..8
                /\ \A i \in 1..Len(t) : IsWordChar(t[i]) /\ t[i] # "_"
        THEN [kind |-> "captcha", code |-> StrUpper(t)]
        ELSE [kind |-> "none", code |-> <<>>]

\* the loop of otp_or_captcha for one registered worker.  hasattr(w,
\* "otp_code") holds for the Canara and IDFC workers, hasattr(w,
\* "captcha_code") for all but the IDFC worker.
set_codes(wr, c) ==
    LET a == IF c.kind = "otp" /\ wr.bank \in {"CANARA", "IDFC"}
             THEN [wr EXCEPT !.otp_code = c.code,
                             !.otp_at = IF wr.pc = "wait_otp" THEN "waiting" ELSE "idle"]
             ELSE wr
    IN  IF c.kind # "none" /\ wr.bank # "IDFC"
        THEN [a EXCEPT !.captcha_code = c.code,
                       !.captcha_at = IF wr.pc = "wait_captcha" THEN "waiting"
                                                                ELSE "idle"]
        ELSE a

\* edit_button: the chat is asked for the new value of a field
edit_button(alias, field_key) ==
    /\ alias \in DOMAIN creds_by_alias
    /\ handler' = [pc |-> "await_value", alias |-> alias, field |-> field_key]
    /\ handler' # handler
    /\ UNCHANGED <<creds_by_alias, registry, workers, nworkers, last, failMode,
                   monitor, msgr, csv>>

\* one text message that is not a command.  The application hands it to
\* handle_alias_text (group -100, block=False) and to otp_or_captcha
\* (group 0); neither stops the other.
text_message(message_text) ==
    LET c == read_code(message_text)
        pending == handler.pc = "await_value"
        alias == handler.alias
        field_key == handler.field
        new_value == StrStrip(message_text)
        used == {i \in 1..Len(csv) :
                    /\ field_key = "account_number"
                    /\ StrStrip(csv[i].account_number) = new_value
                    /\ csv[i].alias # alias}
        written == /\ pending
                   /\ \E i \in 1..Len(csv) : csv[i].alias = alias
                   /\ used = {}
        registered(w) == \E i \in 1..Len(registry) : registry[i].wid = w
        patched(w) == IF written /\ RegGet(registry, alias) = w
                      THEN [workers[w] EXCEPT !.cred[field_key] = new_value]
                      ELSE workers[w]
    IN  /\ csv' = IF written THEN edited_rows(csv, alias, field_key, new_value)
                  ELSE csv
        /\ creds_by_alias' = IF written THEN load_creds(csv') ELSE creds_by_alias
        /\ handler' = [pc |-> "idle", alias |-> "", field |-> ""]
        /\ workers' = [w \in WorkerIds |->
                          IF registered(w) THEN set_codes(patched(w), c)
                          ELSE workers[w]]
        /\ last' = [op |-> "text", text |-> message_text,
                    edit |-> IF ~pending THEN "none"
                             ELSE IF written THEN "ok" ELSE "refused",
                    applied |-> {w \in WorkerIds :
                                    registered(w) /\ set_codes(workers[w], c) # workers[w]}]
        /\ UNCHANGED <<registry, nworkers, failMode, monitor, msgr>>

\* the next instant of a wait at which its loop can behave differently: half
\* a second, 179.5 s, 180 s, 300 s, 300.5 s, and the end of the time followed
next_poll(waited) ==
    LET later == {x \in {1, 359, 360, 600, 601, 2 * MaxTime} : x > waited}
    IN  CHOOSE x \in later : \A y \in later : x <= y

\* CanaraWorker._login, the manual CAPTCHA (the solver found no answer), and
\* _handle_otp_if_present
canara_login_steps(w) ==
    LET wr == workers[w]
        to(r) == workers' = [workers EXCEPT ![w] = r]
    IN  /\ wr.bank = "CANARA"
        /\ \/ /\ wr.pc = "run" /\ wr.cycle < MaxCycles
              /\ to([wr EXCEPT !.pc = "wait_captcha", !.captcha_code = <<>>,
                               !.captcha_at = "none", !.waited = 0, !.exc = "none",
                               !.typed_at = "none", !.cycle = wr.cycle + 1])
           \/ /\ wr.pc = "wait_captcha"
              /\ IF wr.stop_evt \/ wr.waited >= 2 * 180
                 THEN to([wr EXCEPT !.pc = "run", !.exc = "T"])
                 ELSE IF wr.captcha_code # <<>>
                 THEN to([wr EXCEPT !.pc = "otp_page",
                                    !.typed_at = wr.captcha_at])
                 ELSE to([wr EXCEPT !.waited = next_poll(wr.waited)])
           \/ /\ wr.pc = "otp_page"
              /\ \E otp_required \in BOOLEAN :
                    IF otp_required THEN to([wr EXCEPT !.pc = "wait_otp", !.waited = 0])
                    ELSE to([wr EXCEPT !.pc = "run"])
           \/ /\ wr.pc = "wait_otp"
              /\ IF wr.stop_evt THEN to([wr EXCEPT !.pc = "run", !.exc = "T"])
                 ELSE IF wr.otp_code = <<>>
                 THEN /\ wr.waited < 2 * MaxTime
                      /\ to([wr EXCEPT !.waited = next_poll(wr.waited)])
                 ELSE \E invalid \in BOOLEAN :
                        to([wr EXCEPT !.pc = IF invalid THEN "wait_otp" ELSE "run",
                                      !.otp_code = <<>>,
                                      !.otp_at = "used",
                                      !.typed_at = wr.otp_at])
        /\ OnlyWorkers

\* IDFCWorker._login, "OTP via Telegram"
idfc_login_steps(w) ==
    LET wr == workers[w]
        to(r) == workers' = [workers EXCEPT ![w] = r]
    IN  /\ wr.bank = "IDFC"
        /\ \/ /\ wr.pc = "run" /\ wr.cycle < MaxCycles
              /\ to([wr EXCEPT !.pc = "wait_otp", !.waited = 0, !.exc = "none",
                               !.typed_at = "none", !.cycle = wr.cycle + 1])
           \/ /\ wr.pc = "wait_otp"
              /\ IF wr.stop_evt THEN to([wr EXCEPT !.pc = "run"])
                 ELSE IF wr.otp_code # <<>>
                 THEN to([wr EXCEPT !.pc = "run", !.otp_at = "used",
                                    !.typed_at = wr.otp_at])
                 ELSE IF wr.waited > 2 * 300
                 THEN to([wr EXCEPT !.pc = "run", !.exc = "T"])
                 ELSE to([wr EXCEPT !.waited = next_poll(wr.waited)])
        /\ OnlyWorkers

\* two started workers; the logins of one of them are followed, the other
\* has its logins behind it
InitCodes ==
  \E followed \in {1, 2} :
    /\ csv = RowsFor({"cnrb", "g_idfc"})
    /\ creds_by_alias = load_creds(csv)
    /\ registry = <<[alias |-> "cnrb", wid |-> 1], [alias |-> "g_idfc", wid |-> 2]>>
    /\ workers = [w \in WorkerIds |->
                    CASE w = 1 -> [NewWorker("cnrb", "CANARA")
                                     EXCEPT !.cred = load_creds(csv)["cnrb"],
                                            !.cycle = IF followed = 1 THEN 0 ELSE MaxCycles]
                      [] w = 2 -> [NewWorker("g_idfc", "IDFC")
                                     EXCEPT !.cred = load_creds(csv)["g_idfc"],
                                            !.cycle = IF followed = 2 THEN 0 ELSE MaxCycles]
                      [] OTHER -> NoWorker]
    /\ nworkers = 2
    /\ handler = [pc |-> "idle", alias |-> "", field |-> ""]
    /\ last = [op |-> "none", text |-> <<>>, edit |-> "none", applied |-> {}]
    /\ failMode = "none"
    /\ monitor = NoMonitor
    /\ msgr = NoMessenger

SpecCodes ==
    InitCodes /\ [][\/ \E t \in {<<"1","2","3","4","5","6">>, <<"a","b","1","2">>,
                                 <<"h","i">>} : text_message(t)
                    \/ edit_button("cnrb", "password")
                    \/ canara_login_steps(1)
                    \/ idfc_login_steps(2)]_vars

\* C31: a code from the chat that a worker types into the portal was sent
\* while the worker was waiting for a code of that kind; a code that arrived
\* while it was not waiting, or that it has typed in before, is not used.
C31_OnlyWaitingWorkersConsume ==
    \A w \in WorkerIds : workers[w].typed_at \in {"none", "waiting"}

\* C32: while the stop flag is clear, no worker is still waiting for a
\* manual CAPTCHA after 180 s, and none for an OTP after 300 s (and the one
\* further poll of half a second in which the loop notices it).
C32_WaitsAreBounded ==
    \A w \in WorkerIds :
        ~workers[w].stop_evt =>
            /\ workers[w].pc = "wait_captcha" => workers[w].waited <= 2 * 180
            /\ workers[w].pc = "wait_otp" => workers[w].waited <= 2 * 300 + 1

\* C37: a text message that is written to the credentials file as the value
\* of a pending edit changes no worker's otp_code or captcha_code.
C37_TextHasOneEffect ==
    [][csv' # csv =>
          \A w \in WorkerIds :
              /\ workers'[w].otp_code = workers[w].otp_code
              /\ workers'[w].captcha_code = workers[w].captcha_code]_vars

====
